---- MODULE Spec2Model ----
(***************************************************************************)
(* Model of uvls/src/ast.rs: the builder pass (visit_root and the visit_*  *)
(* handlers), the resolver post-pass (VisitorState::connect) and the query *)
(* API of AstDocument (lookup, lookup_import, lookup_with_binding, prefix).*)
(*                                                                         *)
(* The syntax tree is not a variable: the recursive descent is modelled by *)
(* the handlers firing in document order.  `open` holds the `parent`       *)
(* arguments of the handler invocations that have not returned yet, and    *)
(* `section` the header kind of the top-level block being visited.         *)
(* Symbols carry the 0-based index of the Rust arrays; TLA+ sequences are  *)
(* 1-based, so array element i is seq[i + 1].                              *)
(***************************************************************************)
EXTENDS Integers, Sequences, FiniteSets, TLC

\* ---------------------------------------------------------------- bounds
MaxImports == 2
MaxPathLen == 2
MaxSections == 2
MaxSegments == 2
MaxDecls == 3
MaxOrderSections == 4
MaxImportPathLen == 3
MaxLvlTokens == 2

Names == {"a", "b"}
None == "None"

RECURSIVE SeqsUpTo(_, _)
SeqsUpTo(S, n) ==
    IF n = 0 THEN {<<>>}
    ELSE LET shorter == SeqsUpTo(S, n - 1)
         IN shorter \cup {Append(s, x) : s \in shorter, x \in S}

\* ------------------------------------------------------------ data model
Sym(k, i) == [k |-> k, i |-> i]
Root == Sym("Root", 0)
NoSym == Sym("None", 0)

EmptyMap == [x \in {} |-> x]
MapPut(m, k, v) == [x \in DOMAIN m \cup {k} |-> IF x = k THEN v ELSE m[x]]

insert_multi(map, k, v) ==
    IF k \in DOMAIN map THEN [map EXCEPT ![k] = Append(@, v)]
    ELSE MapPut(map, k, <<v>>)

\* an insert that extends the child list and leaves the parent map alone
TreeMap_insert_children_only(t, parent, child) ==
    [children |-> insert_multi(t.children, parent, child), parent |-> t.parent]

TreeMap_insert(t, parent, child) ==
    [children |-> insert_multi(t.children, parent, child),
     parent |-> MapPut(t.parent, child, parent)]

AstDefault ==
    [namespace |-> None, includes |-> <<>>, import |-> <<>>, features |-> <<>>,
     constraints |-> <<>>, attributes |-> <<>>, references |-> <<>>,
     groups |-> <<>>, dirs |-> <<>>,
     structure |-> [children |-> EmptyMap, parent |-> EmptyMap],
     index |-> EmptyMap]

ErrorInfo(w, msg, at, old) == [weight |-> w, msg |-> msg, at |-> at, line |-> old]

VARIABLES pc, section, top_level_order, open, visited, ast, errors, q, decl

\* Ast::span: the source position of the node a symbol was created for
VARIABLES span

\* the inlay handler: the shared source, the event channel, the clock that
\* Instant::now() reads, the task's locals, the event it took last with the
\* requests it sent for it, and whether the task still runs
VARIABLES source, rx, clock, map, latest, initial, handled, task

\* the callers of the handler: the events whose tx.send has not completed,
\* the source the stored model was submitted for, and the first publication
\* issued after the handler processed the last change of the source
VARIABLES sending, held_for, awaited

translation == <<pc, section, top_level_order, open, visited, ast, errors, q, decl, span>>

inlay == <<source, rx, clock, map, latest, initial, handled, task, sending, held_for, awaited>>

\* a second run of the translation on the document of the first: whether the
\* declarations are taken as they come, written down or read back, the
\* declarations written down, and what the first run returned
VARIABLES run, doc, first

rerun == <<run, doc, first>>

\* the tree-sitter cursor: the syntax tree, the path from its root to the
\* node under the cursor, the nodes the open calls of visit_children were
\* made at, and what the last step of the descent was
VARIABLES tree, cursor, frames, called

descent == <<tree, cursor, frames, called>>

vars == <<translation, inlay, rerun, descent>>

\* ------------------------------------------------------------------- Ast
import_prefix(a, sym) ==
    LET im == a.import[sym.i + 1]
    IN IF im.alias # None THEN <<im.alias>> ELSE im.path

AstName(a, sym) ==
    CASE sym.k = "Feature" -> a.features[sym.i + 1].name
      [] sym.k = "Attribute" -> a.attributes[sym.i + 1].name
      [] sym.k = "Import" ->
            LET im == a.import[sym.i + 1]
            IN IF im.alias # None THEN im.alias
               ELSE IF im.path = <<>> THEN None ELSE im.path[Len(im.path)]
      [] sym.k = "Dir" -> a.dirs[sym.i + 1].name
      [] OTHER -> None

AstChildren(a, sym) ==
    IF sym \in DOMAIN a.structure.children THEN a.structure.children[sym] ELSE <<>>

all_imports(a) == [n \in 1..Len(a.import) |-> Sym("Import", n - 1)]

IndexGet(a, key) == IF key \in DOMAIN a.index THEN <<a.index[key]>> ELSE <<>>

\* Ast::lookup: the destinations f is called with, in call order
AstLookup(a, sym, prefix) ==
    CASE sym.k = "Root" ->
            IndexGet(a, <<sym, prefix, "Import">>) \o IndexGet(a, <<sym, prefix, "Dir">>)
                \o IndexGet(a, <<sym, prefix, "Feature">>)
      [] sym.k = "Feature" -> IndexGet(a, <<sym, prefix, "Attribute">>)
      [] sym.k = "Attribute" -> IndexGet(a, <<sym, prefix, "Attribute">>)
      [] sym.k = "Dir" ->
            IndexGet(a, <<sym, prefix, "Import">>) \o IndexGet(a, <<sym, prefix, "Dir">>)
      [] OTHER -> <<>>

\* -------------------------------------------------------- VisitorState
push_child(a, parent, child) ==
    [a EXCEPT !.structure = TreeMap_insert(@, parent, child)]

add_ref_direct(a, path) ==
    [ast |-> [a EXCEPT !.references = Append(@, [path |-> path])],
     sym |-> Sym("Reference", Len(a.references))]

add_ref(a, path, scope) ==
    LET r == add_ref_direct(a, path)
    IN [ast |-> push_child(r.ast, scope, r.sym), sym |-> r.sym]

\* an add_constraint that links the symbol and leaves the array alone
add_constraint_unstored(a, constraint, scope) ==
    push_child(a, scope, Sym("Constraint", Len(a.constraints)))

add_constraint(a, constraint, scope) ==
    LET sym == Sym("Constraint", Len(a.constraints))
    IN push_child([a EXCEPT !.constraints = Append(@, constraint)], scope, sym)

\* a Dir chain that makes a new Dir for every segment and reuses none
RECURSIVE ConnectDirs_never_shared(_, _, _, _)
ConnectDirs_never_shared(a, path, k, node) ==
    IF k >= Len(path) - 1 THEN [ast |-> a, node |-> node]
    ELSE LET sym == Sym("Dir", Len(a.dirs))
             a1 == [a EXCEPT !.dirs = Append(@, [name |-> path[k + 1], depth |-> k + 1])]
             a2 == push_child(a1, node, sym)
             a3 == [a2 EXCEPT !.index = MapPut(@, <<node, path[k + 1], "Dir">>, sym)]
         IN ConnectDirs_never_shared(a3, path, k + 1, sym)

\* connect, first loop body: the Dir chain of one import prefix
\* (k runs over 0 .. path.len() - 1, exclusive)
RECURSIVE ConnectDirs(_, _, _, _)
ConnectDirs(a, path, k, node) ==
    IF k >= Len(path) - 1 THEN [ast |-> a, node |-> node]
    ELSE LET dir_name == path[k + 1]
             key == <<node, dir_name, "Dir">>
         IN IF key \in DOMAIN a.index
            THEN ConnectDirs(a, path, k + 1, a.index[key])
            ELSE LET sym == Sym("Dir", Len(a.dirs))
                     a1 == [a EXCEPT !.dirs = Append(@, [name |-> dir_name, depth |-> k + 1])]
                     a2 == push_child(a1, node, sym)
                     a3 == [a2 EXCEPT !.index = MapPut(@, key, sym)]
                 IN ConnectDirs(a3, path, k + 1, sym)

DuplicateImport(i, old) ==
    <<ErrorInfo(20, "duplicate import already defined in line", i, old)>>

\* connect, first loop body for import i.  With an empty prefix
\* `path.len() - 1` underflows (a panic in a checked build) and, where the
\* subtraction wraps, `path[k]` and `path.last().unwrap()` panic: every build
\* aborts.
ConnectImport(st, i) ==
    LET path == import_prefix(st.ast, i)
    IN IF Len(path) = 0 THEN [st EXCEPT !.panic = TRUE]
       ELSE LET d == ConnectDirs(st.ast, path, 0, Root)
                key == <<d.node, path[Len(path)], "Import">>
                a1 == push_child(d.ast, d.node, i)
                a2 == [a1 EXCEPT !.index = MapPut(@, key, i)]
            IN [ast |-> a2,
                errors |-> IF key \in DOMAIN a1.index
                           THEN st.errors \o DuplicateImport(i, a1.index[key])
                           ELSE st.errors,
                panic |-> FALSE]

RECURSIVE ConnectImports(_, _)
ConnectImports(st, n) ==
    IF st.panic \/ n >= Len(st.ast.import) THEN st
    ELSE ConnectImports(ConnectImport(st, Sym("Import", n)), n + 1)

\* a report of a duplicate at the new definition only
DuplicateNewOnly(node, old) == <<ErrorInfo(20, "duplicate feature", node, NoSym)>>

DuplicateFeature(node, old) ==
    <<ErrorInfo(20, "duplicate feature", node, NoSym),
      ErrorInfo(20, "duplicate feature", old, NoSym)>>

DuplicateAttribute(node, old) ==
    <<ErrorInfo(20, "duplicate attribute", node, NoSym),
      ErrorInfo(20, "duplicate attribute", old, NoSym)>>

\* the depth the name index passes to the children of a node
ChildDepth(node, depth) == depth + 1

\* a visit that registers a feature in the scope it is nested in
ConnectVisit_scoped_features(st, node, scope, depth) ==
    LET name == AstName(st.ast, node)
    IN CASE name # None /\ node.k \in {"Feature", "Attribute"} ->
              LET key == <<scope, name, node.k>>
              IN [ast |-> [st.ast EXCEPT !.index = MapPut(@, key, node)],
                  errors |-> st.errors,
                  new_scope |-> node]
         [] OTHER -> [ast |-> st.ast, errors |-> st.errors, new_scope |-> scope]

\* connect, second loop body: one pop of the explicit stack
ConnectVisit(st, node, scope, depth) ==
    LET name == AstName(st.ast, node)
    IN CASE name # None /\ node.k = "Feature" ->
              LET key == <<Root, name, "Feature">>
              IN [ast |-> [st.ast EXCEPT !.index = MapPut(@, key, node)],
                  errors |-> IF key \in DOMAIN st.ast.index
                             THEN st.errors \o DuplicateFeature(node, st.ast.index[key])
                             ELSE st.errors,
                  new_scope |-> node]
         [] name # None /\ node.k = "Attribute" ->
              LET key == <<scope, name, "Attribute">>
              IN [ast |-> [st.ast EXCEPT !.index = MapPut(@, key, node),
                                         !.attributes[node.i + 1].depth = depth],
                  errors |-> IF key \in DOMAIN st.ast.index
                             THEN st.errors \o DuplicateAttribute(node, st.ast.index[key])
                             ELSE st.errors,
                  new_scope |-> node]
         [] OTHER -> [ast |-> st.ast, errors |-> st.errors, new_scope |-> scope]

RECURSIVE ConnectIndex(_, _)
ConnectIndex(st, stack) ==
    IF stack = <<>> THEN st
    ELSE LET top == stack[Len(stack)]
             v == ConnectVisit(st, top.node, top.scope, top.depth)
             ch == AstChildren(v.ast, top.node)
             pushed == [n \in 1..Len(ch) |->
                          [node |-> ch[n], scope |-> v.new_scope,
                           depth |-> ChildDepth(top.node, top.depth)]]
         IN ConnectIndex([ast |-> v.ast, errors |-> v.errors],
                         SubSeq(stack, 1, Len(stack) - 1) \o pushed)

\* connect, third loop: root features colliding with an import or directory
RECURSIVE ConnectRootNames(_, _, _)
ConnectRootNames(a, ch, errs) ==
    IF ch = <<>> THEN errs
    ELSE LET i == Head(ch)
             e1 == IF i.k = "Feature" /\ <<Root, AstName(a, i), "Dir">> \in DOMAIN a.index
                   THEN <<ErrorInfo(20, "name already defined as import directory", i, NoSym)>>
                   ELSE <<>>
             e2 == IF i.k = "Feature" /\ <<Root, AstName(a, i), "Import">> \in DOMAIN a.index
                   THEN <<ErrorInfo(20, "name already defined as import", i, NoSym)>>
                   ELSE <<>>
         IN ConnectRootNames(a, Tail(ch), errs \o e1 \o e2)

connect(a, errs) ==
    LET s1 == ConnectImports([ast |-> a, errors |-> errs, panic |-> FALSE], 0)
    IN IF s1.panic THEN s1
       ELSE LET s2 == ConnectIndex([ast |-> s1.ast, errors |-> s1.errors],
                                   <<[node |-> Root, scope |-> Root, depth |-> 0]>>)
            IN [ast |-> s2.ast,
                errors |-> ConnectRootNames(s2.ast, AstChildren(s2.ast, Root), s2.errors),
                panic |-> FALSE]

\* ------------------------------------------------- constraint translation
\* A syntax node of a constraint: kind, operator text, path names, children.
Node(kind, op, names, kids) == [kind |-> kind, op |-> op, names |-> names, kids |-> kids]
NPath(names) == Node("path", "", names, <<>>)
NLeaf(kind) == Node(kind, "", <<>>, <<>>)
NBinary(op, lhs, rhs) == Node("binary_expr", op, <<>>, <<lhs, rhs>>)
NUnary(op, lhs) == Node("unary_expr", op, <<>>, <<lhs>>)
NNested(c) == Node("nested_expr", "", <<>>, <<c>>)
NFunction(op, args) == Node("function", op, <<>>, args)

Some(v) == [some |-> TRUE, v |-> v]
Nothing == [some |-> FALSE, v |-> None]
Here == Sym("Node", 0)
\* a push_error that keeps a diagnostic to itself once a run has reported
push_error_once_per_process(st, w, msg) ==
    IF run = "replay" THEN st
    ELSE [st EXCEPT !.errors = Append(@, ErrorInfo(w, msg, Here, NoSym))]

push_error(st, w, msg) == [st EXCEPT !.errors = Append(@, ErrorInfo(w, msg, Here, NoSym))]
Ret(st, out) == [ast |-> st.ast, errors |-> st.errors, out |-> out]
St(r) == [ast |-> r.ast, errors |-> r.errors]

opt_numeric_op(op) == op \in {"+", "-", "*", "/"}
opt_logic_op(op) == op \in {"&", "|", "=>", "<=>"}
opt_equation(op) == op \in {"==", ">", "<"}

\* opt_function_args: the paths among the children of the function node, or
\* None at the first named child that is neither a path nor a name
RECURSIVE opt_function_args(_, _, _)
opt_function_args(st, kids, args) ==
    IF kids = <<>> THEN Ret(st, Some(args))
    ELSE CASE Head(kids).kind = "name" -> opt_function_args(st, Tail(kids), args)
           [] Head(kids).kind = "path" ->
                 opt_function_args(st, Tail(kids), Append(args, Head(kids).names))
           [] OTHER -> Ret(push_error(st, 30, "expected a reference"), Nothing)

\* an aggregate of two path arguments that keeps no context Reference
Aggregate2_NoContext(st, op, args) ==
    Ret(st, Some([e |-> "Aggregate", op |-> op, context |-> Nothing, query |-> args[2]]))

\* the Expr an aggregate call with two path arguments yields
Aggregate2(st, op, args) ==
    LET r == add_ref_direct(st.ast, args[1])
    IN Ret([st EXCEPT !.ast = r.ast],
           Some([e |-> "Aggregate", op |-> op, context |-> Some(r.sym), query |-> args[2]]))

\* an aggregate that takes its first two arguments and ignores further ones
opt_aggregate_first_two(st, node) ==
    LET a == opt_function_args(st, node.kids, <<>>)
    IN IF ~a.out.some THEN a
       ELSE CASE Len(a.out.v) = 0 -> Ret(push_error(St(a), 30, "missing arguments"), Nothing)
              [] Len(a.out.v) = 1 ->
                    Ret(St(a), Some([e |-> "Aggregate", op |-> node.op, context |-> Nothing,
                                     query |-> a.out.v[1]]))
              [] OTHER -> Aggregate2(St(a), node.op, a.out.v)

opt_aggregate(st, node) ==
    LET a == opt_function_args(st, node.kids, <<>>)
    IN IF ~a.out.some THEN a
       ELSE CASE Len(a.out.v) = 0 -> Ret(push_error(St(a), 30, "missing arguments"), Nothing)
              [] Len(a.out.v) = 1 ->
                    Ret(St(a), Some([e |-> "Aggregate", op |-> node.op, context |-> Nothing,
                                     query |-> a.out.v[1]]))
              [] Len(a.out.v) = 2 -> Aggregate2(St(a), node.op, a.out.v)
              [] OTHER -> Ret(push_error(St(a), 30, "to many arguments"), Nothing)

RECURSIVE opt_numeric(_, _)
opt_numeric(st, node) ==
    CASE node.kind = "path" ->
            LET r == add_ref_direct(st.ast, node.names)
            IN Ret([st EXCEPT !.ast = r.ast], Some([e |-> "Ref", sym |-> r.sym]))
      [] node.kind = "number" -> Ret(st, Some([e |-> "Number"]))
      [] node.kind = "string" -> Ret(st, Some([e |-> "String"]))
      [] node.kind = "binary_expr" ->
            IF opt_numeric_op(node.op)
            THEN LET lhs == opt_numeric(st, node.kids[1])
                 IN IF ~lhs.out.some THEN lhs
                    ELSE LET rhs == opt_numeric(St(lhs), node.kids[2])
                         IN IF ~rhs.out.some THEN rhs
                            ELSE Ret(St(rhs), Some([e |-> "Binary", op |-> node.op,
                                                    lhs |-> lhs.out.v, rhs |-> rhs.out.v]))
            ELSE Ret(push_error(st, 40, "found a constraint, expected a expression"), Nothing)
      [] node.kind = "nested_expr" -> opt_numeric(st, node.kids[1])
      [] node.kind = "function" ->
            CASE node.op \in {"sum", "avg"} -> opt_aggregate(st, node)
              [] node.op = "len" ->
                    IF node.kids = <<>>
                    THEN Ret(push_error(st, 30, "missing argument"), Nothing)
                    ELSE LET arg == opt_numeric(st, node.kids[1])
                         IN IF ~arg.out.some THEN arg
                            ELSE Ret(IF Len(node.kids) > 1
                                     THEN push_error(St(arg), 30, "expected exactly one argument")
                                     ELSE St(arg),
                                     Some([e |-> "Len", arg |-> arg.out.v]))
              [] OTHER -> Ret(push_error(st, 30, "unknown function"), Nothing)
      [] OTHER -> Ret(push_error(st, 40, "found a constraint, expected a expression"), Nothing)

RECURSIVE opt_constraint(_, _)
opt_constraint(st, node) ==
    CASE node.kind \in {"path", "name"} ->
            LET r == add_ref_direct(st.ast, node.names)
            IN Ret([st EXCEPT !.ast = r.ast], Some([c |-> "Ref", sym |-> r.sym]))
      [] node.kind = "bool" -> Ret(st, Some([c |-> "Constant"]))
      [] node.kind = "unary_expr" ->
            IF node.op = "!"
            THEN LET lhs == opt_constraint(st, node.kids[1])
                 IN IF ~lhs.out.some THEN lhs
                    ELSE Ret(St(lhs), Some([c |-> "Not", lhs |-> lhs.out.v]))
            ELSE Ret(st, Nothing)
      [] node.kind = "nested_expr" -> opt_constraint(st, node.kids[1])
      [] node.kind = "binary_expr" ->
            CASE opt_logic_op(node.op) ->
                    LET lhs == opt_constraint(st, node.kids[1])
                    IN IF ~lhs.out.some THEN lhs
                       ELSE LET rhs == opt_constraint(St(lhs), node.kids[2])
                            IN IF ~rhs.out.some THEN rhs
                               ELSE Ret(St(rhs), Some([c |-> "Logic", op |-> node.op,
                                                       lhs |-> lhs.out.v, rhs |-> rhs.out.v]))
              [] opt_equation(node.op) ->
                    LET lhs == opt_numeric(st, node.kids[1])
                    IN IF ~lhs.out.some THEN lhs
                       ELSE LET rhs == opt_numeric(St(lhs), node.kids[2])
                            IN IF ~rhs.out.some THEN rhs
                               ELSE Ret(St(rhs), Some([c |-> "Equation", op |-> node.op,
                                                       lhs |-> lhs.out.v, rhs |-> rhs.out.v]))
              [] OTHER ->
                    Ret(push_error(st, 40, "expected a constraint found a expression"), Nothing)
      [] OTHER -> Ret(push_error(st, 40, "expected a constraint found a expression"), Nothing)

\* visit_constraint: the constraint is stored only when it translated; the
\* stored span is the syntax node the declaration covers
visit_constraint(st, node, parent) ==
    LET r == opt_constraint(st, node)
    IN IF r.out.some
       THEN [ast |-> add_constraint(r.ast, [content |-> r.out.v, span |-> node], parent),
             errors |-> r.errors]
       ELSE St(r)

\* ------------------------------------------------------- language levels
Tok(kind, val) == [kind |-> kind, val |-> val]

opt_major_lang_lvl(st, val) ==
    IF val \in {"SMT-level", "SAT-level"} THEN Ret(st, Some([major |-> val, minors |-> <<>>]))
    ELSE Ret(push_error(st, 30, "unknown major language level"), Nothing)

opt_smt_minor(st, val) ==
    CASE val \in {"*", "feature-cardinality", "aggregate-function"} -> Ret(st, Some(val))
      [] val = "group-cardinality" -> Ret(push_error(st, 30, "not allowed under SMT"), Nothing)
      [] OTHER -> Ret(push_error(st, 30, "unknown SMT level"), Nothing)

\* a SAT minor level that lets every known minor level pass
opt_sat_minor_any_known(st, val) ==
    CASE val \in {"*", "group-cardinality", "feature-cardinality", "aggregate-function"} ->
            Ret(st, Some(val))
      [] OTHER -> Ret(push_error(st, 30, "unknown SAT level"), Nothing)

opt_sat_minor(st, val) ==
    CASE val \in {"*", "group-cardinality"} -> Ret(st, Some(val))
      [] val \in {"feature-cardinality", "aggregate-function"} ->
            Ret(push_error(st, 30, "not allowed under SAT"), Nothing)
      [] OTHER -> Ret(push_error(st, 30, "unknown SAT level"), Nothing)

\* opt_lang_lvl: one pass of the sibling loop per token
RECURSIVE opt_lang_lvl(_, _, _)
opt_lang_lvl(st, toks, out) ==
    IF toks = <<>> THEN Ret(st, out)
    ELSE LET t == Head(toks)
         IN CASE t.kind = "major_lvl" ->
                    IF out.some
                    THEN Ret(push_error(st, 30, "duplicate major level, please pick a minor level"),
                             Nothing)
                    ELSE LET m == opt_major_lang_lvl(st, t.val)
                         IN IF ~m.out.some THEN m ELSE opt_lang_lvl(St(m), Tail(toks), m.out)
              [] t.kind = "minor_lvl" ->
                    IF out.some
                    THEN LET m == IF out.v.major = "SMT-level" THEN opt_smt_minor(st, t.val)
                                  ELSE opt_sat_minor(st, t.val)
                         IN IF ~m.out.some THEN m
                            ELSE opt_lang_lvl(St(m), Tail(toks),
                                              Some([out.v EXCEPT !.minors = Append(@, m.out.v)]))
                    ELSE Ret(push_error(st, 30,
                                 "missing major level, please specify SMT or SAT level"), Nothing)
              [] t.kind = "name" ->
                    Ret(push_error(st, 30, "unknown language level"), Nothing)
              [] OTHER -> opt_lang_lvl(st, Tail(toks), out)

visit_lang_lvl(st, toks) ==
    LET r == opt_lang_lvl(st, toks, Nothing)
    IN IF r.out.some
       THEN [ast |-> [r.ast EXCEPT !.includes = Append(@, [lang_lvl |-> r.out.v])],
             errors |-> r.errors]
       ELSE St(r)

\* ------------------------------------------------- declarations (builder)
visit_namespace(st, path) ==
    IF st.ast.namespace = None THEN [st EXCEPT !.ast.namespace = path] ELSE st

visit_import_decl(st, path, alias) ==
    [st EXCEPT !.ast.import = Append(@, [path |-> path, alias |-> alias])]

\* a visit_feature that rejects a Feature declared directly under a Feature
visit_feature_rejecting(st, parent, name) ==
    LET sym == Sym("Feature", Len(st.ast.features))
    IN IF parent.k = "Feature"
       THEN [ast |-> st.ast,
             errors |-> push_error(st, 40, "features have to be separated by groups").errors,
             sym |-> sym]
       ELSE [ast |-> push_child([st.ast EXCEPT !.features = Append(@, [name |-> name])],
                                parent, sym),
             errors |-> st.errors, sym |-> sym]

visit_feature(st, parent, name) ==
    LET s1 == IF parent.k = "Feature"
              THEN push_error(st, 40, "features have to be separated by groups")
              ELSE st
        sym == Sym("Feature", Len(s1.ast.features))
        a1 == [s1.ast EXCEPT !.features = Append(@, [name |-> name])]
    IN [ast |-> push_child(a1, parent, sym), errors |-> s1.errors, sym |-> sym]

visit_ref(st, parent, path) ==
    LET s1 == IF parent.k = "Feature"
              THEN push_error(st, 40, "features have to be separated by groups")
              ELSE st
    IN [ast |-> add_ref(s1.ast, path, parent).ast, errors |-> s1.errors]

visit_group(st, parent, mode) ==
    LET s1 == CASE parent.k = "Group" ->
                      push_error(st, 40, "groups have to be separated by features")
                [] parent.k = "Root" ->
                      push_error(st, 40, "groups have to be contained by features")
                [] OTHER -> st
        sym == Sym("Group", Len(s1.ast.groups))
        a1 == push_child(s1.ast, parent, sym)
    IN [ast |-> [a1 EXCEPT !.groups = Append(@, [mode |-> mode])],
        errors |-> s1.errors, sym |-> sym]

visit_attribute_value(st, parent, name, value) ==
    LET sym == Sym("Attribute", Len(st.ast.attributes))
        a1 == push_child(st.ast, parent, sym)
    IN [ast |-> [a1 EXCEPT !.attributes =
                     Append(@, [name |-> name, value |-> value, depth |-> 0])],
        errors |-> st.errors, sym |-> sym]

\* visit_top_lvl, after the sibling loop: the section order check
fixed_order == <<"namespace", "include", "imports", "features", "constraints">>
FixedIndex(kind) == CHOOSE n \in 1..Len(fixed_order) : fixed_order[n] = kind

\* an order check that reports equal neighbours only
RECURSIVE OrderCheck_duplicates_only(_, _, _)
OrderCheck_duplicates_only(order, i, errs) ==
    IF i > Len(order) THEN errs
    ELSE OrderCheck_duplicates_only(order, i + 1,
             errs \o (IF order[i - 1] = order[i]
                      THEN <<ErrorInfo(50, "duplicate " \o order[i] \o " section",
                                       Sym("Section", i - 1), NoSym)>>
                      ELSE <<>>))

RECURSIVE OrderCheck(_, _, _)
OrderCheck(order, i, errs) ==
    IF i > Len(order) THEN errs
    ELSE LET k == FixedIndex(order[i - 1])
             w == FixedIndex(order[i])
             e1 == IF k = w
                   THEN <<ErrorInfo(50, "duplicate " \o order[i] \o " section",
                                    Sym("Section", i - 1), NoSym)>>
                   ELSE <<>>
             e2 == IF k > w
                   THEN <<ErrorInfo(50, order[i - 1] \o " section comes before the "
                                           \o order[i] \o " section",
                                    Sym("Section", i - 1), NoSym)>>
                   ELSE <<>>
         IN OrderCheck(order, i + 1, errs \o e1 \o e2)

\* ------------------------------------------------------------ AstDocument
\* filters a caller may pass to lookup
Filters == {"all", "attribute"}
Filter(f, sym) ==
    CASE f = "all" -> TRUE
      [] f = "attribute" -> sym.k = "Attribute"

Pop(stack) == SubSeq(stack, 1, Len(stack) - 1)
Top(stack) == stack[Len(stack)]

\* pushes that ask no filter
LookupPush_unfiltered(a, cur, base, filter) ==
    LET hits == AstLookup(a, cur, base[1])
    IN [n \in 1..Len(hits) |-> [cur |-> hits[n], base |-> Tail(base)]]

\* pushes that follow the first accepted hit only
LookupPush_first_hit(a, cur, base, filter) ==
    LET hits == SelectSeq(AstLookup(a, cur, base[1]), LAMBDA dst : Filter(filter, dst))
    IN IF hits = <<>> THEN <<>> ELSE <<[cur |-> hits[1], base |-> Tail(base)]>>

\* the entries the closure of lookup pushes for one popped (cur, base)
LookupPush(a, cur, base, filter) ==
    LET hits == SelectSeq(AstLookup(a, cur, base[1]), LAMBDA dst : Filter(filter, dst))
    IN [n \in 1..Len(hits) |-> [cur |-> hits[n], base |-> Tail(base)]]

\* AstDocument::lookup, drained: the symbols the iterator yields, in order
RECURSIVE LookupLoop(_, _, _, _)
LookupLoop(a, stack, filter, out) ==
    IF stack = <<>> THEN out
    ELSE LET t == Top(stack)
         IN IF t.base = <<>> THEN LookupLoop(a, Pop(stack), filter, Append(out, t.cur))
            ELSE LookupLoop(a, Pop(stack) \o LookupPush(a, t.cur, t.base, filter), filter, out)

lookup(a, root, path, filter) ==
    LookupLoop(a, <<[cur |-> root, base |-> path]>>, filter, <<>>)

\* pushes that keep the last destination as the whole binding
BindingPush_last_only(a, cur, base, bind, filter) ==
    LET hits == SelectSeq(AstLookup(a, cur, base[1]), LAMBDA dst : Filter(filter, dst))
    IN [n \in 1..Len(hits) |-> [cur |-> hits[n], base |-> Tail(base), bind |-> <<hits[n]>>]]

\* the entries the closure of lookup_with_binding pushes
BindingPush(a, cur, base, bind, filter) ==
    LET hits == SelectSeq(AstLookup(a, cur, base[1]), LAMBDA dst : Filter(filter, dst))
    IN [n \in 1..Len(hits) |->
          [cur |-> hits[n], base |-> Tail(base), bind |-> Append(bind, hits[n])]]

RECURSIVE BindingLoop(_, _, _, _)
BindingLoop(a, stack, filter, out) ==
    IF stack = <<>> THEN out
    ELSE LET t == Top(stack)
         IN IF t.base = <<>> THEN BindingLoop(a, Pop(stack), filter, Append(out, t.bind))
            ELSE BindingLoop(a, Pop(stack) \o BindingPush(a, t.cur, t.base, t.bind, filter),
                             filter, out)

lookup_with_binding(a, root, path, filter) ==
    BindingLoop(a, <<[cur |-> root, base |-> path, bind |-> <<>>]>>, filter, <<>>)

\* AstDocument::lookup_import, drained.  `base[0]` on an empty base is an
\* index out of bounds: the call panics and yields nothing more.
RECURSIVE ImportLoop(_, _, _)
ImportLoop(a, stack, out) ==
    IF stack = <<>> THEN [out |-> out, panic |-> FALSE]
    ELSE LET t == Top(stack)
         IN IF t.base = <<>>
            THEN IF t.cur.k = "Import"
                 THEN ImportLoop(a, Pop(stack), Append(out, [sym |-> t.cur, suffix |-> t.base]))
                 ELSE [out |-> out, panic |-> TRUE]
            ELSE LET hits == SelectSeq(AstLookup(a, t.cur, t.base[1]),
                                       LAMBDA dst : dst.k \in {"Dir", "Import"})
                     pushed == [n \in 1..Len(hits) |-> [cur |-> hits[n], base |-> Tail(t.base)]]
                 IN ImportLoop(a, Pop(stack) \o pushed,
                               IF t.cur.k = "Import"
                               THEN Append(out, [sym |-> t.cur, suffix |-> t.base])
                               ELSE out)

lookup_import(a, path) == ImportLoop(a, <<[cur |-> Root, base |-> path]>>, <<>>)

\* AstDocument::prefix: the names pushed while walking the parent links
PrefixPush(out, name) == Append(out, name)

RECURSIVE PrefixLoop(_, _, _)
PrefixLoop(a, sym, out) ==
    LET name == AstName(a, sym)
        out1 == IF name # None THEN PrefixPush(out, name) ELSE out
    IN IF sym \in DOMAIN a.structure.parent
       THEN IF a.structure.parent[sym].k = "Feature" THEN out1
            ELSE PrefixLoop(a, a.structure.parent[sym], out1)
       ELSE out1

prefix(a, sym) ==
    IF sym.k = "Import" THEN import_prefix(a, sym) ELSE PrefixLoop(a, sym, <<>>)

\* AstDocument::parent
parent(a, sym, merge_root_features) ==
    IF merge_root_features /\ sym.k = "Feature" THEN Some(Root)
    ELSE IF sym \in DOMAIN a.structure.parent THEN Some(a.structure.parent[sym])
         ELSE Nothing

\* a scope that never looks at the parent links
scope_root_only(a, sym) == Root

RECURSIVE scope(_, _)
scope(a, sym) ==
    LET p == parent(a, sym, TRUE)
    IN IF ~p.some THEN Root
       ELSE IF sym.k \in {"Feature", "Root"} THEN sym
            ELSE scope(a, p.v)

depth(a, sym) ==
    CASE sym.k = "Feature" -> 1
      [] sym.k = "Import" -> Len(a.import[sym.i + 1].path)
      [] sym.k = "Dir" -> a.dirs[sym.i + 1].depth
      [] sym.k = "Attribute" -> a.attributes[sym.i + 1].depth
      [] OTHER -> 0

\* every symbol of the store
Kinds ==
    [Feature |-> "features", Constraint |-> "constraints", Attribute |-> "attributes",
     Reference |-> "references", Group |-> "groups", Import |-> "import",
     LangLvl |-> "includes", Dir |-> "dirs"]
Symbols(a) == UNION {{Sym(k, i - 1) : i \in 1..Len(a[Kinds[k]])} : k \in DOMAIN Kinds}

\* ---------------------------------------------------------------- inputs
Paths == SeqsUpTo(Names, MaxPathLen)
ImportPaths == SeqsUpTo(Names, MaxImportPathLen)
Aliases == Names \cup {None}
Values == {"Void", "Attributes"}
GroupModes == {"Or"}
Segments == SeqsUpTo(Names, MaxSegments)

LangLvlSample ==
    {<<Tok("major_lvl", "SAT-level")>>,
     <<Tok("major_lvl", "SMT-level"), Tok("minor_lvl", "aggregate-function")>>,
     <<Tok("minor_lvl", "*")>>}

\* the children a lang_lvl node may have, and the declarations built of them
LvlToks ==
    {Tok("major_lvl", v) : v \in {"SAT-level", "SMT-level", "bogus"}}
    \cup {Tok("minor_lvl", v) : v \in {"*", "group-cardinality", "feature-cardinality",
                                        "aggregate-function", "bogus"}}
    \cup {Tok("name", "bogus"), Tok(".", ".")}
LangLvlInputs ==
    LangLvlSample
    \cup SeqsUpTo(LvlToks, MaxLvlTokens)
    \cup {<<Tok("major_lvl", m)>> \o t :
             m \in {"SAT-level", "SMT-level"},
             t \in {<<Tok("minor_lvl", "*"), Tok("minor_lvl", "group-cardinality")>>,
                    <<Tok("minor_lvl", "feature-cardinality"), Tok("minor_lvl", "aggregate-function")>>,
                    <<Tok("minor_lvl", "*"), Tok("major_lvl", "SAT-level")>>,
                    <<Tok(".", "."), Tok("minor_lvl", "*")>>,
                    <<Tok("minor_lvl", "*"), Tok("name", "bogus")>>}}
    \cup {<<Tok("minor_lvl", "*"), Tok("major_lvl", "SMT-level"), Tok("minor_lvl", "*")>>}

\* paths, literals and calls in operand position
P1 == NPath(<<"a">>)
P2 == NPath(<<"b", "a">>)
Num == NLeaf("number")
Atoms ==
    {P1, P2, Num, NLeaf("bool"), NFunction("sum", <<>>), NFunction("sum", <<P2>>),
     NFunction("avg", <<P1, P2>>), NFunction("sum", <<P1, P2, P1>>),
     NFunction("sum", <<P1, Num>>), NFunction("len", <<P2>>)}

\* sum(a, b.a) > 3,  a,  a & 3
ConsSample ==
    {NBinary(">", NFunction("sum", <<P1, P2>>), Num), P1, NBinary("&", P1, Num)}

ConsInputs ==
    ConsSample
    \cup {NLeaf("bool"), Num, NUnary("!", P1), NNested(P2)}
    \cup {NBinary(">", x, Num) : x \in Atoms}
    \cup {NBinary("==", Num, x) : x \in {P1, NLeaf("bool"), NFunction("avg", <<P1, P2>>)}}
    \cup {NBinary("&", P1, P2), NBinary("|", Num, P1), NBinary("+", P1, P2),
          NBinary("<", NBinary("+", P1, P2), Num),
          NBinary("<", NBinary("*", NLeaf("bool"), P1), P2)}

\* ---------------------------------------------------------------- cursor
MaxDepth == 2
MaxKids == 2

\* a syntax node: whether it is an extra or an error node, and its children
SyntaxNode(extra, kids) == [extra |-> extra, kids |-> kids]

RECURSIVE SyntaxTrees(_)
SyntaxTrees(levels) ==
    IF levels = 0 THEN {SyntaxNode(e, <<>>) : e \in BOOLEAN}
    ELSE {SyntaxNode(e, kids) : e \in BOOLEAN, kids \in SeqsUpTo(SyntaxTrees(levels - 1), MaxKids)}

RECURSIVE NodeAt(_, _)
NodeAt(t, path) == IF path = <<>> THEN t ELSE NodeAt(t.kids[Head(path)], Tail(path))

Moved(c, ok) == [c |-> c, ok |-> ok]

\* TreeCursor::goto_first_child, goto_next_sibling and goto_parent
cursor_goto_first_child(c) ==
    IF NodeAt(tree, c).kids # <<>> THEN Moved(Append(c, 1), TRUE) ELSE Moved(c, FALSE)

cursor_goto_next_sibling(c) ==
    IF c # <<>> /\ Top(c) < Len(NodeAt(tree, Pop(c)).kids)
    THEN Moved(Append(Pop(c), Top(c) + 1), TRUE)
    ELSE Moved(c, FALSE)

cursor_goto_parent(c) == IF c = <<>> THEN c ELSE Pop(c)

RECURSIVE skip_extra(_)
skip_extra(c) ==
    IF ~NodeAt(tree, c).extra THEN Moved(c, TRUE)
    ELSE LET next == cursor_goto_next_sibling(c)
         IN IF ~next.ok THEN Moved(c, FALSE) ELSE skip_extra(next.c)

goto_parent(c) == cursor_goto_parent(c)

\* a descent that stays below when every child is an extra node
goto_first_child_staying_below(c) ==
    LET down == cursor_goto_first_child(c)
    IN IF down.ok THEN skip_extra(down.c) ELSE Moved(c, FALSE)

goto_first_child(c) ==
    LET down == cursor_goto_first_child(c)
    IN IF down.ok
       THEN IF skip_extra(down.c).ok THEN skip_extra(down.c)
            ELSE Moved(goto_parent(skip_extra(down.c).c), FALSE)
       ELSE Moved(c, FALSE)

goto_next_sibling(c) ==
    LET next == cursor_goto_next_sibling(c)
    IN IF next.ok THEN skip_extra(next.c) ELSE Moved(c, FALSE)

NoDescent ==
    /\ tree = SyntaxNode(FALSE, <<>>)
    /\ cursor = <<>>
    /\ frames = <<>>
    /\ called = "none"

\* visit_children and visit_children_arg, up to the call of f: without a
\* semantic child f is not called and the default is returned
VisitChildren ==
    /\ cursor' = goto_first_child(cursor).c
    /\ frames' = IF goto_first_child(cursor).ok THEN Append(frames, cursor) ELSE frames
    /\ called' = IF goto_first_child(cursor).ok THEN "f" ELSE "default"
    /\ UNCHANGED <<translation, inlay, rerun, tree>>

\* f moves on among the siblings: goto_next_sibling, and the loops of it in
\* goto_named, goto_field, goto_kind and visit_siblings
CallbackNextSibling ==
    /\ frames # <<>>
    /\ cursor' = goto_next_sibling(cursor).c
    /\ cursor' # cursor
    /\ called' = "goto_next_sibling"
    /\ UNCHANGED <<translation, inlay, rerun, tree, frames>>

\* f returns, at the end of its body or early, and visit_children goes up
CallbackReturns ==
    /\ frames # <<>>
    /\ cursor' = goto_parent(cursor)
    /\ frames' = Pop(frames)
    /\ called' = "returned"
    /\ UNCHANGED <<translation, inlay, rerun, tree>>

\* --------------------------------------------------------- inlay handler
MaxTime == 1
MaxQueue == 1
MaxCallers == 2

InlaySources == {"None", "File", "Web"}

\* the solver results a publication carries; modul.ok holds of the first only
Models == {"m1", "m2"}
modul_ok(model) == model = "m1"

\* the events of the channel; a Publish remembers the source it was
\* submitted for
Event(e, model, timestamp, s) == [e |-> e, model |-> model, timestamp |-> timestamp, source |-> s]
Get == Event("Get", None, 0, None)
Publish(model, timestamp, s) == Event("Publish", model, timestamp, s)
Reset(timestamp) == Event("Reset", None, timestamp, None)
SetSource == Event("SetSource", None, 0, None)
NoEvent == Event("None", None, 0, None)
Fresh == Event("Fresh", None, 0, None)

Refresh == "workspace/inlayHint/refresh"
ShowDocument == "window/showDocument"
ApplyEdit == "workspace/applyEdit"

\* the hints of a model: none when the module is not ok
generate(model) == IF ~modul_ok(model) THEN Nothing ELSE Some(model)

\* a guard that lets an event through when its timestamp equals the latest
Stale_older_only(timestamp, last) == timestamp < last

\* the guard of Reset and Publish: `if timestamp <= latest { continue; }`
Stale(timestamp, last) == timestamp <= last

\* what the task did for the event it took: the requests sent to the client
\* and the answer sent on the request's channel
Handled(event, sent, out) == [event |-> event, sent |-> sent, out |-> out]

InlayInit ==
    /\ source = "None"
    /\ rx = <<>>
    /\ clock = 0
    /\ map = Nothing
    /\ latest = 0
    /\ initial = FALSE
    /\ handled = Handled(NoEvent, <<>>, Nothing)
    /\ task = "running"
    /\ sending = {}
    /\ held_for = None
    /\ awaited = NoEvent

\* a caller reaches `self.tx.send(event).await`
Send(event) ==
    /\ Cardinality(sending) < MaxCallers
    /\ event \notin sending
    /\ sending' = sending \cup {event}

\* a change of the source whose SetSource event the task has not taken yet
SetSourcePending(queue) ==
    SetSource \in sending \/ \E n \in 1..Len(queue) : queue[n].e = "SetSource"

\* the requests up to and including the refresh that fails, all when none does
RECURSIVE SentUpTo(_, _)
SentUpTo(reqs, fail) ==
    IF reqs = <<>> THEN <<>>
    ELSE IF Head(reqs) = Refresh /\ fail = 1 THEN <<Refresh>>
    ELSE <<Head(reqs)>> \o SentUpTo(Tail(reqs), IF Head(reqs) = Refresh THEN fail - 1 ELSE fail)

Refreshes(reqs) == Len(SelectSeq(reqs, LAMBDA r : r = Refresh))

\* send_request(..).await.unwrap() fails at the fail-th refresh of the event
Unwrapped(reqs, fail) == fail = 0 \/ fail > Refreshes(reqs)

\* Instant::now() is monotonic
Tick ==
    /\ clock < MaxTime
    /\ clock' = clock + 1
    /\ UNCHANGED <<translation, rerun, descent, source, rx, map, latest, initial, handled, task,
                   sending, held_for, awaited>>

\* set_source up to the send: the source is replaced under the lock
set_source(s) ==
    /\ source' = s
    /\ Send(SetSource)
    /\ awaited' = NoEvent
    /\ UNCHANGED <<translation, rerun, descent, rx, clock, map, latest, initial, handled, task,
                   held_for>>

\* maybe_publish up to the send: the comparison under the lock succeeded and
\* f() built the model
maybe_publish(s, timestamp, model) ==
    /\ source = s
    /\ timestamp <= clock
    /\ Send(Publish(model, timestamp, s))
    /\ awaited' = IF awaited = Fresh THEN Publish(model, timestamp, s) ELSE awaited
    /\ UNCHANGED <<translation, rerun, descent, source, rx, clock, map, latest, initial, handled,
                   task, held_for>>

\* maybe_reset up to the send
maybe_reset(s) ==
    /\ source = s
    /\ Send(Reset(clock))
    /\ UNCHANGED <<translation, rerun, descent, source, rx, clock, map, latest, initial, handled,
                   task, held_for, awaited>>

\* get up to the send
get ==
    /\ Send(Get)
    /\ UNCHANGED <<translation, rerun, descent, source, rx, clock, map, latest, initial, handled,
                   task, held_for, awaited>>

\* tx.send(event).await completes: it waits for room in the channel, and the
\* error of a channel whose receiver is gone is ignored
Delivered(event) ==
    /\ event \in sending
    /\ task = "running" => Len(rx) < MaxQueue
    /\ rx' = IF task = "running" THEN Append(rx, event) ELSE rx
    /\ sending' = sending \ {event}
    /\ UNCHANGED <<translation, rerun, descent, source, clock, map, latest, initial, handled,
                   task, held_for, awaited>>

\* one turn of the loop of inlay_handler: the next event of the channel
HandleGet ==
    /\ task = "running" /\ rx # <<>> /\ Head(rx).e = "Get"
    /\ rx' = Tail(rx)
    /\ handled' = Handled(Head(rx), <<>>, IF map.some THEN generate(map.v) ELSE Nothing)
    /\ UNCHANGED <<translation, rerun, descent, source, clock, map, latest, initial, task,
                   sending, held_for, awaited>>

HandleReset(fail) ==
    /\ task = "running" /\ rx # <<>> /\ Head(rx).e = "Reset"
    /\ rx' = Tail(rx)
    /\ IF Stale(Head(rx).timestamp, latest)
       THEN /\ handled' = Handled(Head(rx), <<>>, Nothing)
            /\ UNCHANGED <<latest, map, task>>
       ELSE /\ latest' = Head(rx).timestamp
            /\ map' = Nothing
            /\ handled' = Handled(Head(rx), <<Refresh>>, Nothing)
            /\ task' = IF Unwrapped(<<Refresh>>, fail) THEN "running" ELSE "panicked"
    /\ UNCHANGED <<translation, rerun, descent, source, clock, initial, sending, held_for, awaited>>

HandlePublish(fail) ==
    /\ task = "running" /\ rx # <<>> /\ Head(rx).e = "Publish"
    /\ rx' = Tail(rx)
    /\ IF Stale(Head(rx).timestamp, latest)
       THEN /\ handled' = Handled(Head(rx), <<>>, Nothing)
            /\ UNCHANGED <<latest, map, initial, task, held_for>>
       ELSE LET reqs == IF initial
                        THEN <<ShowDocument, Refresh, ApplyEdit, ApplyEdit, Refresh>>
                        ELSE <<Refresh>>
            IN /\ latest' = Head(rx).timestamp
               /\ initial' = (initial /\ fail = 1)
               /\ map' = IF initial /\ fail = 1 THEN map ELSE Some(Head(rx).model)
               /\ held_for' = IF initial /\ fail = 1 THEN held_for ELSE Head(rx).source
               /\ handled' = Handled(Head(rx), SentUpTo(reqs, fail), Nothing)
               /\ task' = IF Unwrapped(reqs, fail) THEN "running" ELSE "panicked"
    /\ UNCHANGED <<translation, rerun, descent, source, clock, sending, awaited>>

HandleSetSource(fail) ==
    /\ task = "running" /\ rx # <<>> /\ Head(rx).e = "SetSource"
    /\ rx' = Tail(rx)
    /\ initial' = TRUE
    /\ map' = Nothing
    /\ handled' = Handled(Head(rx), <<Refresh>>, Nothing)
    /\ task' = IF Unwrapped(<<Refresh>>, fail) THEN "running" ELSE "panicked"
    /\ awaited' = IF SetSourcePending(Tail(rx)) THEN awaited ELSE Fresh
    /\ UNCHANGED <<translation, rerun, descent, source, clock, latest, sending, held_for>>

Callers ==
    \/ Tick
    \/ \E s \in InlaySources : set_source(s)
    \/ \E s \in InlaySources, timestamp \in 0..MaxTime, model \in Models :
            maybe_publish(s, timestamp, model)
    \/ \E s \in InlaySources : maybe_reset(s)
    \/ get
    \/ \E event \in sending : Delivered(event)

NextInlay ==
    \/ Callers
    \/ HandleGet
    \/ \E fail \in 0..1 : HandleReset(fail)
    \/ \E fail \in 0..2 : HandlePublish(fail)
    \/ \E fail \in 0..1 : HandleSetSource(fail)

\* --------------------------------------------------------------- actions
\* the declaration node the running handler was called at; none once the
\* cursor has left the declaration
Decl(kind, node) == [kind |-> kind, node |-> node]

\* the symbols Ast::span knows a position for
SpannedKinds == {"Feature", "Attribute", "Import", "Reference", "Group", "Constraint", "LangLvl"}

\* spans after a handler ran at the at-th declaration of the document: the
\* symbols it created lie in that declaration
Spanned(a, at) ==
    [s \in {x \in Symbols(a) : x.k \in SpannedKinds} |->
        IF s \in DOMAIN span THEN span[s] ELSE at]

Parent == IF open = <<>> THEN Root ELSE Top(open)
Builder == [ast |-> ast, errors |-> errors]

\* what a run of visit_root ends with
Returned(at, a, errs) == [pc |-> at, ast |-> a, errors |-> errs]

\* a step of the cursor: the handler that runs and the node it runs at
CursorAt(act, arg) == [act |-> act, arg |-> arg]

\* the syntax tree is an input: a second run meets the nodes of the first
SameTree(node) ==
    CASE run = "once" -> UNCHANGED rerun
      [] run = "record" -> doc' = Append(doc, node) /\ UNCHANGED <<run, first>>
      [] run = "replay" ->
            /\ doc # <<>>
            /\ Head(doc).act = node.act
            /\ Head(doc).arg = node.arg
            /\ doc' = Tail(doc)
            /\ UNCHANGED <<run, first>>

InitOnce ==
    /\ pc = "top"
    /\ section = "none"
    /\ top_level_order = <<>>
    /\ open = <<>>
    /\ visited = 0
    /\ ast = AstDefault
    /\ errors = <<>>
    /\ q = [op |-> "none"]
    /\ decl = Decl("none", None)
    /\ span = EmptyMap
    /\ InlayInit
    /\ doc = <<>>
    /\ first = Returned("none", AstDefault, <<>>)

Init == InitOnce /\ run = "once" /\ NoDescent

\* the document is translated, written down and translated again
InitTwice == InitOnce /\ run = "record" /\ NoDescent

\* a cursor on the root of any syntax tree, as Tree::walk returns it
InitDescent ==
    /\ InitOnce /\ run = "once"
    /\ tree \in {t \in SyntaxTrees(MaxDepth) : ~t.extra}
    /\ cursor = <<>>
    /\ frames = <<>>
    /\ called = "none"

\* visit_top_lvl: the next top-level block, with a recognised header
VisitTopLvlBlkUpTo(kind, max) ==
    /\ pc = "top" /\ open = <<>>
    /\ Len(top_level_order) < max
    /\ top_level_order' = Append(top_level_order, kind)
    /\ section' = kind
    /\ decl' = Decl("none", None)
    /\ UNCHANGED <<inlay, descent, span, visited, pc, open, ast, errors, q>>
    /\ SameTree(CursorAt("blk", kind))

VisitTopLvlBlk(kind) == VisitTopLvlBlkUpTo(kind, MaxSections)

\* visit_top_lvl: a block whose header is no section; the header is taken
\* off the observed order again
VisitTopLvlOther(kind) ==
    /\ pc = "top" /\ open = <<>>
    /\ errors' = Append(errors,
                        ErrorInfo(60, IF kind = "incomplete_namespace"
                                      THEN "incomplete namespace"
                                      ELSE "only namspaces, imports, includes, features and constraints are allowed here",
                                  Sym("Section", Len(top_level_order)), NoSym))
    /\ section' = IF kind = "incomplete_namespace" THEN "none" ELSE "features"
    /\ visited < MaxDecls /\ visited' = visited + 1
    /\ decl' = Decl("none", None)
    /\ UNCHANGED <<inlay, descent, pc, top_level_order, open, ast, q>>
    /\ span' = Spanned(ast', visited')
    /\ SameTree(CursorAt("other", kind))

VisitNamespace(path) ==
    /\ pc = "top" /\ section = "namespace"
    /\ ast' = visit_namespace(Builder, path).ast
    /\ ast' # ast
    /\ visited < MaxDecls /\ visited' = visited + 1
    /\ decl' = Decl("namespace", path)
    /\ UNCHANGED <<inlay, descent, pc, section, top_level_order, open, errors, q>>
    /\ span' = Spanned(ast', visited')
    /\ SameTree(CursorAt("namespace", path))

VisitLangLvl(toks) ==
    /\ pc = "top" /\ section = "include"
    /\ LET r == visit_lang_lvl(Builder, toks)
       IN ast' = r.ast /\ errors' = r.errors
    /\ visited < MaxDecls /\ visited' = visited + 1
    /\ decl' = Decl("lang_lvl", toks)
    /\ UNCHANGED <<inlay, descent, pc, section, top_level_order, open, q>>
    /\ span' = Spanned(ast', visited')
    /\ SameTree(CursorAt("lang_lvl", toks))

VisitImportDecl(path, alias) ==
    /\ pc = "top" /\ section = "imports"
    /\ Len(ast.import) < MaxImports
    /\ ast' = visit_import_decl(Builder, path, alias).ast
    /\ visited < MaxDecls /\ visited' = visited + 1
    /\ decl' = Decl("import", <<path, alias>>)
    /\ UNCHANGED <<inlay, descent, pc, section, top_level_order, open, errors, q>>
    /\ span' = Spanned(ast', visited')
    /\ SameTree(CursorAt("import", <<path, alias>>))

\* visit_blk_decl with a name header: the handler stays open for the children
VisitFeature(name) ==
    /\ pc = "top" /\ section = "features"
    /\ Parent.k \in {"Root", "Feature", "Group"}
    /\ LET r == visit_feature(Builder, Parent, name)
       IN ast' = r.ast /\ errors' = r.errors /\ open' = Append(open, r.sym)
    /\ visited < MaxDecls /\ visited' = visited + 1
    /\ decl' = Decl("feature", name)
    /\ UNCHANGED <<inlay, descent, pc, section, top_level_order, q>>
    /\ span' = Spanned(ast', visited')
    /\ SameTree(CursorAt("feature", name))

VisitGroup(mode) ==
    /\ pc = "top" /\ section = "features"
    /\ Parent.k \in {"Root", "Feature", "Group"}
    /\ LET r == visit_group(Builder, Parent, mode)
       IN ast' = r.ast /\ errors' = r.errors /\ open' = Append(open, r.sym)
    /\ visited < MaxDecls /\ visited' = visited + 1
    /\ decl' = Decl("group", mode)
    /\ UNCHANGED <<inlay, descent, pc, section, top_level_order, q>>
    /\ span' = Spanned(ast', visited')
    /\ SameTree(CursorAt("group", mode))

VisitRef(path) ==
    /\ pc = "top" /\ section = "features"
    /\ Parent.k \in {"Root", "Feature", "Group"}
    /\ LET r == visit_ref(Builder, Parent, path)
       IN ast' = r.ast /\ errors' = r.errors
    /\ visited < MaxDecls /\ visited' = visited + 1
    /\ decl' = Decl("ref", path)
    /\ UNCHANGED <<inlay, descent, pc, section, top_level_order, open, q>>
    /\ span' = Spanned(ast', visited')
    /\ SameTree(CursorAt("ref", path))

VisitAttributeValue(name, value) ==
    /\ pc = "top" /\ section = "features"
    /\ Parent.k \in {"Feature", "Attribute"}
    /\ LET r == visit_attribute_value(Builder, Parent, name, value)
       IN /\ ast' = r.ast /\ errors' = r.errors
          /\ open' = IF value = "Attributes" THEN Append(open, r.sym) ELSE open
    /\ visited < MaxDecls /\ visited' = visited + 1
    /\ decl' = Decl("attribute", <<name, value>>)
    /\ UNCHANGED <<inlay, descent, pc, section, top_level_order, q>>
    /\ span' = Spanned(ast', visited')
    /\ SameTree(CursorAt("attribute", <<name, value>>))

\* a constraint of the constraints section, or one inside an attribute list
VisitConstraint(node) ==
    /\ pc = "top"
    /\ \/ section = "constraints"
       \/ section = "features" /\ Parent.k \in {"Feature", "Attribute"}
    /\ LET r == visit_constraint(Builder, node, Parent)
       IN ast' = r.ast /\ errors' = r.errors
    /\ visited < MaxDecls /\ visited' = visited + 1
    /\ decl' = Decl("constraint", node)
    /\ UNCHANGED <<inlay, descent, pc, section, top_level_order, open, q>>
    /\ span' = Spanned(ast', visited')
    /\ SameTree(CursorAt("constraint", node))

\* the sibling loop of the innermost open handler ends
Return ==
    /\ pc = "top" /\ open # <<>>
    /\ open' = Pop(open)
    /\ decl' = Decl("none", None)
    /\ UNCHANGED <<inlay, descent, span, visited, pc, section, top_level_order, ast, errors, q>>
    /\ SameTree(CursorAt("end of children", None))

\* visit_top_lvl: no sibling is left; the order check runs
VisitTopLvlEnd ==
    /\ pc = "top" /\ open = <<>>
    /\ errors' = OrderCheck(top_level_order, 2, errors)
    /\ pc' = "connect"
    /\ section' = "none"
    /\ decl' = Decl("none", None)
    /\ UNCHANGED <<inlay, descent, span, visited, top_level_order, open, ast, q>>
    /\ SameTree(CursorAt("end of file", None))

Connect ==
    /\ pc = "connect"
    /\ LET r == connect(ast, errors)
       IN /\ ast' = r.ast /\ errors' = r.errors
          /\ pc' = IF r.panic THEN "panic" ELSE "done"
    /\ UNCHANGED <<inlay, descent, span, visited, section, top_level_order, open, q, decl>>
    /\ SameTree(CursorAt("connect", None))

Query(op, sym, path, filter, out) ==
    [op |-> op, sym |-> sym, path |-> path, filter |-> filter, out |-> out]

DoLookup(root, path, filter) ==
    /\ pc = "done" /\ q.op = "none"
    /\ q' = Query("lookup", root, path, filter, lookup(ast, root, path, filter))
    /\ UNCHANGED <<inlay, descent, rerun, span, visited, pc, section, top_level_order, open, ast, errors, decl>>

DoLookupWithBinding(root, path, filter) ==
    /\ pc = "done" /\ q.op = "none"
    /\ q' = Query("lookup_with_binding", root, path, filter,
                  lookup_with_binding(ast, root, path, filter))
    /\ UNCHANGED <<inlay, descent, rerun, span, visited, pc, section, top_level_order, open, ast, errors, decl>>

DoLookupImport(path) ==
    /\ pc = "done" /\ q.op = "none"
    /\ q' = Query("lookup_import", Root, path, "all", lookup_import(ast, path))
    /\ UNCHANGED <<inlay, descent, rerun, span, visited, pc, section, top_level_order, open, ast, errors, decl>>

DoPrefix(sym) ==
    /\ pc = "done" /\ q.op = "none"
    /\ q' = Query("prefix", sym, <<>>, "all", prefix(ast, sym))
    /\ UNCHANGED <<inlay, descent, rerun, span, visited, pc, section, top_level_order, open, ast, errors, decl>>

\* the children of cur in list order, as one walk pushes them
WalkPushes_in_list_order(a, cur, at, root, merge_root_features) ==
    LET ch == AstChildren(a, cur)
        kept == SelectSeq(ch, LAMBDA i : ~(merge_root_features /\ i.k = "Feature" /\ root.k # "Root"))
    IN [n \in 1..Len(kept) |-> [sym |-> kept[n], depth |-> at + 1]]

\* visit_children_depth: the pushes for the children of cur, last child first
WalkPushes(a, cur, at, root, merge_root_features) ==
    LET ch == AstChildren(a, cur)
        kept == SelectSeq(ch, LAMBDA i : ~(merge_root_features /\ i.k = "Feature" /\ root.k # "Root"))
    IN [n \in 1..Len(kept) |-> [sym |-> kept[Len(kept) + 1 - n], depth |-> at + 1]]

\* visit_children_depth: the symbols f is called with, in call order
RECURSIVE WalkLoop(_, _, _, _, _, _)
WalkLoop(a, root, merge_root_features, f, stack, out) ==
    IF stack = <<>> THEN out
    ELSE LET cur == Top(stack).sym
             at == Top(stack).depth
             explore == IF cur # root THEN Filter(f, cur) ELSE TRUE
             called_on == IF cur # root THEN Append(out, cur) ELSE out
         IN WalkLoop(a, root, merge_root_features, f,
                     IF explore
                     THEN Pop(stack) \o WalkPushes(a, cur, at, root, merge_root_features)
                     ELSE Pop(stack),
                     called_on)

visit_children(a, root, merge_root_features, f) ==
    WalkLoop(a, root, merge_root_features, f, <<[sym |-> root, depth |-> 0]>>, <<>>)

DoVisitChildren(root, merge_root_features, f) ==
    /\ pc = "done" /\ q.op = "none"
    /\ q' = Query("visit_children", root,
                  IF merge_root_features THEN <<"merge_root_features">> ELSE <<>>,
                  f, visit_children(ast, root, merge_root_features, f))
    /\ UNCHANGED <<inlay, descent, rerun, span, visited, pc, section, top_level_order, open, ast, errors, decl>>

DoScope(sym) ==
    /\ pc = "done" /\ q.op = "none"
    /\ q' = Query("scope", sym, <<>>, "all", scope(ast, sym))
    /\ UNCHANGED <<inlay, descent, rerun, span, visited, pc, section, top_level_order, open, ast, errors, decl>>

SectionKinds == {fixed_order[n] : n \in 1..Len(fixed_order)}

\* the builder pass and the resolver
Translate ==
    \/ \E kind \in SectionKinds : VisitTopLvlBlk(kind)
    \/ \E path \in Paths : VisitNamespace(path)
    \/ \E toks \in LangLvlSample : VisitLangLvl(toks)
    \/ \E path \in Paths, alias \in Aliases : VisitImportDecl(path, alias)
    \/ \E name \in Names : VisitFeature(name)
    \/ \E mode \in GroupModes : VisitGroup(mode)
    \/ \E path \in Paths : VisitRef(path)
    \/ \E name \in Names, value \in Values : VisitAttributeValue(name, value)
    \/ \E node \in ConsSample : VisitConstraint(node)
    \/ Return
    \/ VisitTopLvlEnd
    \/ Connect

Next == Translate

Spec == Init /\ [][Next]_vars

\* translation of the declarations that reach the name index, then one query
TranslateNamed ==
    \/ \E kind \in {"imports", "features"} : VisitTopLvlBlk(kind)
    \/ \E path \in Paths, alias \in Aliases : VisitImportDecl(path, alias)
    \/ \E name \in Names : VisitFeature(name)
    \/ \E mode \in GroupModes : VisitGroup(mode)
    \/ \E name \in Names, value \in Values : VisitAttributeValue(name, value)
    \/ Return
    \/ VisitTopLvlEnd
    \/ Connect

NextQuery ==
    \/ TranslateNamed
    \/ \E root \in Symbols(ast) \cup {Root}, path \in Segments, filter \in Filters :
            DoLookup(root, path, filter)
    \/ \E root \in Symbols(ast) \cup {Root}, path \in Segments, filter \in Filters :
            DoLookupWithBinding(root, path, filter)
    \/ \E path \in Segments : DoLookupImport(path)
    \/ \E sym \in Symbols(ast) \cup {Root} : DoPrefix(sym)

SpecQuery == Init /\ [][NextQuery]_vars

\* translation of documents that hold constraints only
NextCons ==
    \/ VisitTopLvlBlk("constraints")
    \/ \E node \in ConsInputs : VisitConstraint(node)
    \/ VisitTopLvlEnd
    \/ Connect

SpecCons == Init /\ [][NextCons]_vars

\* translation of any document, then one scope query
NextScope ==
    \/ Translate
    \/ \E sym \in Symbols(ast) \cup {Root} : DoScope(sym)

SpecScope == Init /\ [][NextScope]_vars

\* translation of the named declarations, then one walk of the facade
NextWalk ==
    \/ TranslateNamed
    \/ \E root \in Symbols(ast) \cup {Root}, merge_root_features \in BOOLEAN, f \in Filters :
            DoVisitChildren(root, merge_root_features, f)

SpecWalk == Init /\ [][NextWalk]_vars

\* documents of empty sections: the order check alone
NextSections ==
    \/ \E kind \in SectionKinds : VisitTopLvlBlkUpTo(kind, MaxOrderSections)
    \/ \E kind \in {"incomplete_namespace", "other"} : VisitTopLvlOther(kind)
    \/ VisitTopLvlEnd
    \/ Connect

SpecSections == Init /\ [][NextSections]_vars

\* documents of imports, with paths long enough for a Dir below a Dir
NextImports ==
    \/ VisitTopLvlBlk("imports")
    \/ \E path \in ImportPaths, alias \in Aliases : VisitImportDecl(path, alias)
    \/ VisitTopLvlEnd
    \/ Connect

SpecImports == Init /\ [][NextImports]_vars

\* documents of language-level declarations
NextLangLvl ==
    \/ VisitTopLvlBlk("include")
    \/ \E toks \in LangLvlInputs : VisitLangLvl(toks)
    \/ VisitTopLvlEnd
    \/ Connect

SpecLangLvl == Init /\ [][NextLangLvl]_vars

\* the inlay handler and the callers of its channel
SpecInlay == Init /\ [][NextInlay]_vars

\* every event a caller can send
Events ==
    {Get, SetSource}
        \cup {Reset(timestamp) : timestamp \in 0..MaxTime}
        \cup {Publish(model, timestamp, s) : model \in Models, timestamp \in 0..MaxTime, s \in InlaySources}

\* the turns of the loop when no request to the client fails
HandlerSteps ==
    \/ HandleGet
    \/ HandleReset(0)
    \/ HandlePublish(0)
    \/ HandleSetSource(0)

NextInlayLive == Callers \/ HandlerSteps

\* the runtime polls the handler task while the channel holds an event, and
\* the channel admits its waiting senders in turn
SpecInlayLive ==
    /\ Init
    /\ [][NextInlayLive]_vars
    /\ WF_vars(HandlerSteps)
    /\ \A event \in Events : SF_vars(Delivered(event))

\* visit_root is called again on the same tree
Rerun ==
    /\ run = "record" /\ pc \in {"done", "panic"}
    /\ first' = Returned(pc, ast, errors)
    /\ run' = "replay"
    /\ pc' = "top"
    /\ section' = "none"
    /\ top_level_order' = <<>>
    /\ open' = <<>>
    /\ visited' = 0
    /\ ast' = AstDefault
    /\ errors' = <<>>
    /\ decl' = Decl("none", None)
    /\ span' = EmptyMap
    /\ UNCHANGED <<inlay, descent, doc, q>>

NextTwice ==
    \/ Translate
    \/ Rerun

SpecTwice == InitTwice /\ [][NextTwice]_vars

\* the guarded descent with any callback
NextDescent ==
    \/ VisitChildren
    \/ CallbackNextSibling
    \/ CallbackReturns

SpecDescent == InitDescent /\ [][NextDescent]_vars

\* ------------------------------------------------------------------ claims
\* C1: translating a document never aborts: every run of visit_root, the
\* resolution pass included, ends with an Ast and a diagnostic list, also
\* for an import whose path carries no name segment.
C1_NoPanic == pc # "panic"

\* C1: the resolution pass has run over an import whose prefix is empty
C1_EmptyImportPrefix ==
    /\ pc = "panic"
    /\ \E i \in 1..Len(ast.import) : import_prefix(ast, Sym("Import", i - 1)) = <<>>

\* how often sym occurs in the child lists of the structure
Occurrences(a, sym) ==
    LET ch == a.structure.children
    IN Cardinality(UNION {{<<p, n>> : n \in {m \in 1..Len(ch[p]) : ch[p][m] = sym}} :
                             p \in DOMAIN ch})

\* sym has a parent link and is listed once, in the child list of that parent
OneParent(a, sym) ==
    /\ sym \in DOMAIN a.structure.parent
    /\ Occurrences(a, sym) = 1
    /\ \E n \in 1..Len(AstChildren(a, a.structure.parent[sym])) :
          AstChildren(a, a.structure.parent[sym])[n] = sym

\* the parent links from sym end at Root without visiting a symbol twice
RECURSIVE ChainToRoot(_, _, _)
ChainToRoot(a, sym, seen) ==
    IF sym = Root THEN TRUE
    ELSE IF sym \in seen \/ sym \notin DOMAIN a.structure.parent THEN FALSE
         ELSE ChainToRoot(a, a.structure.parent[sym], seen \cup {sym})

\* the References a translated constraint or expression points to
RECURSIVE ExprRefs(_)
ExprRefs(x) ==
    LET F == DOMAIN x
    IN (IF "sym" \in F THEN {x.sym} ELSE {})
       \cup (IF "context" \in F /\ x.context.some THEN {x.context.v} ELSE {})
       \cup (IF "lhs" \in F THEN ExprRefs(x.lhs) ELSE {})
       \cup (IF "rhs" \in F THEN ExprRefs(x.rhs) ELSE {})
       \cup (IF "arg" \in F THEN ExprRefs(x.arg) ELSE {})

ConstraintRefs(a) ==
    UNION {ExprRefs(a.constraints[n].content) : n \in 1..Len(a.constraints)}

RECURSIVE NameScope(_, _)
NameScope(a, sym) ==
    LET p == a.structure.parent[sym]
    IN IF p.k \in {"Feature", "Attribute", "Root"} THEN p ELSE NameScope(a, p)

\* the index key a Feature, Attribute or Import is registered under
KeyOf(a, sym) ==
    CASE sym.k = "Feature" -> <<Root, AstName(a, sym), "Feature">>
      [] sym.k = "Attribute" -> <<NameScope(a, sym), AstName(a, sym), "Attribute">>
      [] sym.k = "Import" -> <<a.structure.parent[sym], AstName(a, sym), "Import">>

Registered(a) == {s \in Symbols(a) : s.k \in {"Feature", "Attribute", "Import"}}
Registrations(a, key) == {s \in Registered(a) : KeyOf(a, s) = key}

DuplicateMsg(kind) ==
    CASE kind = "Feature" -> "duplicate feature"
      [] kind = "Attribute" -> "duplicate attribute"
      [] kind = "Import" -> "duplicate import already defined in line"

\* the duplicate diagnostics about one key, in the order they were pushed
DuplicateErrors(a, errs, key) ==
    SelectSeq(errs, LAMBDA e : e.msg = DuplicateMsg(key[3]) /\ KeyOf(a, e.at) = key)

\* a sequence of (new, prior) pairs of diagnostics about the key
InPairs(a, d, key) ==
    /\ Len(d) % 2 = 0
    /\ \A j \in 1..(Len(d) \div 2) :
          /\ d[2 * j - 1].at # d[2 * j].at
          /\ d[2 * j].at \in Registrations(a, key)

\* C3 (as stated): every registration of a key the name index already holds,
\* for Feature, Attribute and Import alike, emits a pair of diagnostics, one
\* at the new definition and one at the prior one, and the index keeps
\* exactly one entry for the key.
C3_DuplicatePairs ==
    pc = "done" =>
        \A s \in Registered(ast) :
            LET key == KeyOf(ast, s)
                d == DuplicateErrors(ast, errors, key)
            IN /\ key \in DOMAIN ast.index
               /\ ast.index[key] \in Registrations(ast, key)
               /\ Len(d) = 2 * (Cardinality(Registrations(ast, key)) - 1)
               /\ InPairs(ast, d, key)

\* C3 (amended): a duplicate Feature or Attribute registration emits a pair
\* of diagnostics, one at the new definition and one at the prior one; a
\* duplicate Import registration emits one diagnostic, at the new import,
\* that refers to the prior import; in each case the index keeps exactly one
\* entry for the key.
C3_DuplicateDiagnostics ==
    pc = "done" =>
        \A s \in Registered(ast) :
            LET key == KeyOf(ast, s)
                d == DuplicateErrors(ast, errors, key)
                n == Cardinality(Registrations(ast, key))
            IN /\ key \in DOMAIN ast.index
               /\ ast.index[key] \in Registrations(ast, key)
               /\ IF s.k = "Import"
                  THEN /\ Len(d) = n - 1
                       /\ \A j \in 1..Len(d) :
                             d[j].line \in Registrations(ast, key) \ {d[j].at}
                  ELSE Len(d) = 2 * (n - 1) /\ InPairs(ast, d, key)

\* C3: a translated document in which two imports register the same key
C3_DuplicateImportKey ==
    /\ pc = "done"
    /\ \E s, t \in Registered(ast) :
          s.k = "Import" /\ t.k = "Import" /\ s # t /\ KeyOf(ast, s) = KeyOf(ast, t)

\* the nesting level of an Attribute below its owning Feature
RECURSIVE NestingLevel(_, _)
NestingLevel(a, sym) ==
    LET p == a.structure.parent[sym]
    IN IF p.k = "Attribute" THEN 1 + NestingLevel(a, p) ELSE 1

\* C4: after a translation the depth recorded for an Attribute is its nesting
\* level counted from its owning Feature, 1 for a direct attribute of a
\* Feature, wherever that Feature sits in the feature tree.
C4_DepthFromOwningFeature ==
    pc = "done" =>
        \A s \in Symbols(ast) :
            s.k = "Attribute" => depth(ast, s) = NestingLevel(ast, s)

\* C4: a translated document that holds a direct attribute of a Feature
C4_DirectAttribute ==
    /\ pc = "done"
    /\ \E s \in Symbols(ast) :
          s.k = "Attribute" /\ ast.structure.parent[s].k = "Feature"

\* every path that occurs in a syntax node, in source order
RECURSIVE PathsOf(_)
PathsOf(node) ==
    IF node.kind \in {"path", "name"} THEN <<node.names>>
    ELSE LET k == node.kids
         IN (IF Len(k) >= 1 THEN PathsOf(k[1]) ELSE <<>>)
            \o (IF Len(k) >= 2 THEN PathsOf(k[2]) ELSE <<>>)
            \o (IF Len(k) >= 3 THEN PathsOf(k[3]) ELSE <<>>)

\* the same without the query argument (the last path) of each sum or avg call
RECURSIVE RefPathsOf(_)
RefPathsOf(node) ==
    IF node.kind \in {"path", "name"} THEN <<node.names>>
    ELSE IF node.kind = "function" /\ node.op \in {"sum", "avg"}
         THEN LET args == SelectSeq(node.kids, LAMBDA k : k.kind = "path")
              IN [n \in 1..(Len(args) - 1) |-> args[n].names]
         ELSE LET k == node.kids
              IN (IF Len(k) >= 1 THEN RefPathsOf(k[1]) ELSE <<>>)
                 \o (IF Len(k) >= 2 THEN RefPathsOf(k[2]) ELSE <<>>)

\* the paths of the References the step appended, and their symbols
NewRefPaths ==
    [n \in 1..(Len(ast'.references) - Len(ast.references)) |->
        ast'.references[Len(ast.references) + n].path]
NewRefSyms ==
    {Sym("Reference", i) : i \in Len(ast.references)..(Len(ast'.references) - 1)}
ConstraintStored == Len(ast'.constraints) = Len(ast.constraints) + 1
StoredConstraint == ast'.constraints[Len(ast'.constraints)]

LegalKinds(kind) ==
    CASE kind = "Root" -> {"Import", "Dir", "Feature"}
      [] kind \in {"Feature", "Attribute"} -> {"Attribute"}
      [] kind = "Dir" -> {"Import", "Dir"}
      [] OTHER -> {}

\* one index step from a set of symbols over one name
Step(a, S, name) ==
    {a.index[key] : key \in {k \in DOMAIN a.index :
                                k[1] \in S /\ k[2] = name /\ k[3] \in LegalKinds(k[1].k)}}

\* the symbols reachable from S by consuming the names one after the other
RECURSIVE Reach(_, _, _)
Reach(a, S, names) ==
    IF names = <<>> THEN S ELSE Reach(a, Step(a, S, Head(names)), Tail(names))

Range(seq) == {seq[n] : n \in 1..Len(seq)}

\* C6: with a filter that accepts everything, lookup(root, segments) yields
\* exactly the symbols reachable from root by consuming the segments one
\* after the other through index entries of a kind legal below the current
\* symbol, following every hit and not only the first.
C6_LookupYieldsReachable ==
    (q.op = "lookup" /\ q.filter = "all") =>
        Range(q.out) = Reach(ast, {q.sym}, q.path)

\* C6: a lookup of one segment from Root that followed two index hits
C6_TwoHitsFollowed ==
    /\ q.op = "lookup"
    /\ q.filter = "all"
    /\ q.sym = Root
    /\ Len(q.path) = 1
    /\ Cardinality(Range(q.out)) >= 2

\* Reach, where every symbol stepped to must pass the filter
RECURSIVE FilteredReach(_, _, _, _)
FilteredReach(a, S, names, f) ==
    IF names = <<>> THEN S
    ELSE FilteredReach(a, {s \in Step(a, S, Head(names)) : Filter(f, s)}, Tail(names), f)

\* C7 (as stated): lookup yields a symbol reached by exhausting the segments
\* exactly when the filter accepts that symbol; for an empty segment list the
\* root is yielded iff the filter accepts the root.
C7_FilterDecidesFinalSymbol ==
    q.op = "lookup" =>
        Range(q.out) = {s \in Reach(ast, {q.sym}, q.path) : Filter(q.filter, s)}

\* C7 (amended): lookup yields a symbol reached by exhausting the segments
\* exactly when the filter accepts every symbol stepped to on the way, the
\* intermediate ones and the final one; the root is never put to the filter,
\* so for an empty segment list the root is yielded whatever the filter says.
C7_FilterPrunesEveryStep ==
    q.op = "lookup" =>
        Range(q.out) = FilteredReach(ast, {q.sym}, q.path, q.filter)

\* C7: a lookup whose final symbol passes the filter and is not yielded,
\* because the filter rejected the symbol before it
C7_IntermediateRejected ==
    /\ q.op = "lookup"
    /\ q.filter = "attribute"
    /\ Len(q.path) = 2
    /\ \E s \in Reach(ast, {q.sym}, q.path) : Filter(q.filter, s)
    /\ q.out = <<>>

\* the Imports the index reaches from Root over some prefix of the path
ImportsAlong(a, path) ==
    UNION {{s \in Reach(a, {Root}, SubSeq(path, 1, k)) : s.k = "Import"} :
              k \in 0..Len(path)}

\* C8: for every path, lookup_import yields pairs (i, suffix) with
\* prefix(i) followed by suffix equal to the path; every Import the index
\* reaches along the path is yielded exactly once; the suffix is empty
\* exactly when the path equals prefix(i).
C8_ImportPrefixSuffix ==
    q.op = "lookup_import" =>
        /\ ~q.out.panic
        /\ \A n \in 1..Len(q.out.out) :
              /\ prefix(ast, q.out.out[n].sym) \o q.out.out[n].suffix = q.path
              /\ (q.out.out[n].suffix = <<>>) <=> (q.path = prefix(ast, q.out.out[n].sym))
        /\ {q.out.out[n].sym : n \in 1..Len(q.out.out)} = ImportsAlong(ast, q.path)
        /\ \A n, m \in 1..Len(q.out.out) : q.out.out[n].sym = q.out.out[m].sym => n = m

\* C8: lookup_import ran on a path that an Import's prefix equals, and
\* stopped before yielding that Import
C8_ImportNotYielded ==
    /\ q.op = "lookup_import"
    /\ q.out.panic
    /\ \E s \in ImportsAlong(ast, q.path) :
          /\ prefix(ast, s) = q.path
          /\ \A n \in 1..Len(q.out.out) : q.out.out[n].sym # s

\* chain follows the segments from root: its k-th element is an index hit
\* for the k-th segment below its (k-1)-th element, and passes the filter
IsChain(a, root, names, f, chain) ==
    /\ Len(chain) = Len(names)
    /\ \A k \in 1..Len(chain) :
          /\ chain[k] \in Step(a, {IF k = 1 THEN root ELSE chain[k - 1]}, names[k])
          /\ Filter(f, chain[k])

\* C9: for a non-empty segment list, lookup_with_binding walks as lookup
\* does: it yields one chain per symbol lookup yields, in the same order; a
\* chain has one element per segment, its k-th element is the symbol reached
\* after k segments, and its last element is the symbol lookup yields.
C9_BindingFollowsLookup ==
    (q.op = "lookup_with_binding" /\ q.path # <<>>) =>
        LET l == lookup(ast, q.sym, q.path, q.filter)
        IN /\ Len(q.out) = Len(l)
           /\ \A n \in 1..Len(q.out) :
                 /\ IsChain(ast, q.sym, q.path, q.filter, q.out[n])
                 /\ q.out[n][Len(q.path)] = l[n]

\* C9: lookup_with_binding yielded two chains over two segments
C9_TwoChainsOfTwo ==
    /\ q.op = "lookup_with_binding"
    /\ Len(q.path) = 2
    /\ Len(q.out) >= 2
    /\ q.out[1] # q.out[2]

\* the names of the Attributes from the one directly below the owning
\* Feature down to sym
RECURSIVE NamesFromFeature(_, _)
NamesFromFeature(a, sym) ==
    LET p == a.structure.parent[sym]
    IN (IF p.k = "Attribute" THEN NamesFromFeature(a, p) ELSE <<>>)
          \o <<AstName(a, sym)>>

\* C10: for an Attribute at any nesting depth, prefix lists the attribute
\* names from the outermost one below the owning Feature down to the
\* attribute itself, so that a lookup of prefix(a) from scope(a) with a
\* filter that accepts everything yields a.  Stated for documents that
\* translate without a diagnostic, where no name is defined twice.
C10_PrefixFromOutermost ==
    (q.op = "prefix" /\ q.sym.k = "Attribute" /\ errors = <<>>) =>
        /\ q.out = NamesFromFeature(ast, q.sym)
        /\ q.sym \in Range(lookup(ast, scope(ast, q.sym), q.out, "all"))

\* C10: prefix was asked for an Attribute nested in an Attribute of another name
C10_NestedAttribute ==
    /\ q.op = "prefix"
    /\ q.sym.k = "Attribute"
    /\ ast.structure.parent[q.sym].k = "Attribute"
    /\ AstName(ast, ast.structure.parent[q.sym]) # AstName(ast, q.sym)
    /\ errors = <<>>

\* sym, its parent, the parent of that, and so on
RECURSIVE ParentChain(_, _)
ParentChain(a, sym) ==
    <<sym>> \o (IF sym \in DOMAIN a.structure.parent
                THEN ParentChain(a, a.structure.parent[sym]) ELSE <<>>)

\* the first Feature of the parent chain, Root when the chain holds none
NearestFeature(a, sym) ==
    LET c == ParentChain(a, sym)
        F == {n \in 1..Len(c) : c[n].k = "Feature"}
    IN IF F = {} THEN Root ELSE c[CHOOSE n \in F : \A m \in F : n <= m]

\* C11: scope(sym) returns the nearest Feature on the parent chain of sym,
\* sym itself when sym is a Feature, and Root when the chain holds no
\* Feature, also for a symbol that has no parent link.
C11_ScopeIsNearestFeature ==
    q.op = "scope" => q.out = NearestFeature(ast, q.sym)

\* C11: scope was asked for a Reference of a constraint declared inside a
\* feature; the Reference has no parent link
C11_ScopeOfOrphan ==
    /\ q.op = "scope"
    /\ q.sym.k = "Reference"
    /\ q.sym \notin DOMAIN ast.structure.parent
    /\ \E n \in 1..Len(ast.constraints) :
          /\ q.sym \in ExprRefs(ast.constraints[n].content)
          /\ ast.structure.parent[Sym("Constraint", n - 1)].k = "Feature"
    /\ q.out = Root

\* the kinds of the sequence strictly increase in the fixed order
StrictlyIncreasing(order) ==
    \A i, j \in 1..Len(order) : i < j => FixedIndex(order[i]) < FixedIndex(order[j])

OrderDiagnostics(errs) == SelectSeq(errs, LAMBDA e : e.weight = 50)

\* C12: for any sequence of recognised top-level sections at least one
\* rank-50 ordering diagnostic is emitted if and only if the sequence is not
\* strictly increasing in the fixed order; [namespace, features, imports]
\* yields a "comes before" diagnostic.
C12_OrderDiagnosticIffUnordered ==
    pc \in {"connect", "done"} =>
        /\ (OrderDiagnostics(errors) # <<>>) <=> ~StrictlyIncreasing(top_level_order)
        /\ top_level_order = <<"namespace", "features", "imports">> =>
              OrderDiagnostics(errors) =
                  <<ErrorInfo(50, "features section comes before the imports section",
                              Sym("Section", 2), NoSym)>>

\* C12: the order check ran over [namespace, features, imports] and reported
C12_ImportsAfterFeatures ==
    /\ pc = "connect"
    /\ top_level_order = <<"namespace", "features", "imports">>
    /\ OrderDiagnostics(errors) # <<>>

\* C13: every top-level section whose kind occurred earlier in the document
\* is reported with a rank-50 "duplicate <kind> section" diagnostic at that
\* section, whether the two occurrences are neighbours or not.
C13_EveryDuplicateSectionReported ==
    pc \in {"connect", "done"} =>
        \A j \in 1..Len(top_level_order) :
            (\E i \in 1..(j - 1) : top_level_order[i] = top_level_order[j]) =>
                \E n \in 1..Len(errors) :
                    errors[n] = ErrorInfo(50, "duplicate " \o top_level_order[j] \o " section",
                                          Sym("Section", j - 1), NoSym)

\* C13: the order check ran over a document whose third section repeats the
\* kind of the first, with another section between them
C13_SeparatedDuplicate ==
    /\ pc = "connect"
    /\ Len(top_level_order) = 3
    /\ top_level_order[1] = top_level_order[3]
    /\ top_level_order[2] # top_level_order[1]

\* the names from Root down to a Dir, read off the parent links
RECURSIVE DirPath(_, _)
DirPath(a, d) ==
    LET p == a.structure.parent[d]
    IN (IF p.k = "Dir" THEN DirPath(a, p) ELSE <<>>) \o <<a.dirs[d.i + 1].name>>

Dirs(a) == {Sym("Dir", n - 1) : n \in 1..Len(a.dirs)}
Imports(a) == {Sym("Import", n - 1) : n \in 1..Len(a.import)}

\* the non-empty proper prefixes of the effective prefixes of the imports
ProperPrefixes(a) ==
    UNION {{SubSeq(import_prefix(a, i), 1, k) : k \in 1..(Len(import_prefix(a, i)) - 1)} :
              i \in Imports(a)}

\* sym is Root for the empty path, else the one Dir that stands for the path
StandsFor(a, sym, path) ==
    IF path = <<>> THEN sym = Root ELSE sym.k = "Dir" /\ DirPath(a, sym) = path

\* C14: after the import-hierarchy pass there is exactly one Dir per distinct
\* non-empty proper prefix of the imports' effective prefixes (alias if
\* present, else the full path); the parent of a Dir is the Dir of the
\* one-shorter prefix, or Root; every import is a child of the Dir of its
\* prefix without the last segment, so two imports that differ in the last
\* segment only share their parent Dir.
C14_OneDirPerPrefix ==
    pc = "done" =>
        /\ \A d \in Dirs(ast) : ast.structure.parent[d].k \in {"Root", "Dir"}
        /\ {DirPath(ast, d) : d \in Dirs(ast)} = ProperPrefixes(ast)
        /\ Cardinality(Dirs(ast)) = Cardinality(ProperPrefixes(ast))
        /\ \A d \in Dirs(ast) :
              LET p == DirPath(ast, d)
              IN /\ StandsFor(ast, ast.structure.parent[d], SubSeq(p, 1, Len(p) - 1))
                 /\ Occurrences(ast, d) = 1
        /\ \A i \in Imports(ast) :
              LET p == import_prefix(ast, i)
              IN /\ StandsFor(ast, ast.structure.parent[i], SubSeq(p, 1, Len(p) - 1))
                 /\ OneParent(ast, i)

\* C14: two imports of three segments that differ in the last one share a
\* Dir below a Dir
C14_SharedDirChain ==
    /\ pc = "done"
    /\ Len(ast.import) = 2
    /\ Len(import_prefix(ast, Sym("Import", 0))) = 3
    /\ Len(import_prefix(ast, Sym("Import", 1))) = 3
    /\ import_prefix(ast, Sym("Import", 0)) # import_prefix(ast, Sym("Import", 1))
    /\ Len(ast.dirs) = 2
    /\ ast.structure.parent[Sym("Import", 0)] = ast.structure.parent[Sym("Import", 1)]
    /\ ast.structure.parent[ast.structure.parent[Sym("Import", 0)]].k = "Dir"

\* the step handled the declaration of a Feature / of a Group
FeatureDeclared == Len(open') = Len(open) + 1 /\ Top(open').k = "Feature"
GroupDeclared == Len(open') = Len(open) + 1 /\ Top(open').k = "Group"

\* after the step sym is the newest entry of its vector and the last child
\* of the parent it was declared under
StoredUnder(sym, declared, vector) ==
    /\ Len(ast'[vector]) = Len(ast[vector]) + 1
    /\ sym.i = Len(ast[vector])
    /\ sym \in DOMAIN ast'.structure.parent
    /\ ast'.structure.parent[sym] = declared
    /\ declared \in DOMAIN ast'.structure.children
    /\ ast'.structure.children[declared] = Append(AstChildren(ast, declared), sym)

NestingDiagnostic(msg) == ErrorInfo(40, msg, Here, NoSym)

\* C15: a nesting violation is diagnosed and never drops the entity: every
\* declared Feature or Group is stored as a child of the parent it was
\* declared under, whatever the kind of that parent; one diagnostic is raised
\* for a Feature exactly when its parent is a Feature, one for a Group
\* exactly when its parent is Root or a Group.
C15_NestingDiagnosedAndStored ==
    [][/\ FeatureDeclared =>
             /\ StoredUnder(Top(open'), Parent, "features")
             /\ errors' = errors \o
                   (IF Parent.k = "Feature"
                    THEN <<NestingDiagnostic("features have to be separated by groups")>>
                    ELSE <<>>)
       /\ GroupDeclared =>
             /\ StoredUnder(Top(open'), Parent, "groups")
             /\ errors' = errors \o
                   (CASE Parent.k = "Group" ->
                            <<NestingDiagnostic("groups have to be separated by features")>>
                      [] Parent.k = "Root" ->
                            <<NestingDiagnostic("groups have to be contained by features")>>
                      [] OTHER -> <<>>)]_vars

\* C15: a Feature declared directly under a Feature, and a Group declared
\* under Root, are both stored and both diagnosed
C15_FeatureUnderFeatureStored ==
    /\ \E n \in 1..Len(ast.features) :
          /\ Sym("Feature", n - 1) \in DOMAIN ast.structure.parent
          /\ ast.structure.parent[Sym("Feature", n - 1)].k = "Feature"
    /\ \E n \in 1..Len(ast.groups) : ast.structure.parent[Sym("Group", n - 1)] = Root
    /\ errors = <<NestingDiagnostic("features have to be separated by groups"),
                  NestingDiagnostic("groups have to be contained by features")>>

\* the positions of the major and of the minor levels of a declaration
Majors(toks) == {n \in 1..Len(toks) : toks[n].kind = "major_lvl"}
Minors(toks) == {n \in 1..Len(toks) : toks[n].kind = "minor_lvl"}

LegalMinors(major) ==
    CASE major = "SAT-level" -> {"*", "group-cardinality"}
      [] major = "SMT-level" -> {"*", "feature-cardinality", "aggregate-function"}
      [] OTHER -> {}

\* exactly one major level, known; every minor level after it and legal for it
ValidLevel(toks) ==
    /\ \A n \in 1..Len(toks) : toks[n].kind # "name"
    /\ \E m \in Majors(toks) :
          /\ Majors(toks) = {m}
          /\ toks[m].val \in {"SAT-level", "SMT-level"}
          /\ \A n \in Minors(toks) : n > m /\ toks[n].val \in LegalMinors(toks[m].val)

\* a minor level of the other major follows a major level
CrossCombination(toks) ==
    \E m \in Majors(toks), n \in Minors(toks) :
        /\ m < n
        /\ toks[m].val \in {"SAT-level", "SMT-level"}
        /\ toks[n].val \in (LegalMinors("SAT-level") \cup LegalMinors("SMT-level"))
                              \ LegalMinors(toks[m].val)
SecondMajor(toks) == Cardinality(Majors(toks)) >= 2
MinorBeforeMajor(toks) == \E n \in Minors(toks) : \A m \in Majors(toks) : n < m

LangLvlVisited == decl'.kind = "lang_lvl" /\ visited' = visited + 1

\* C16: a language-level declaration is stored only if it has exactly one
\* major level, every minor level follows that major and is legal for it
\* (SAT: * or group-cardinality; SMT: *, feature-cardinality or
\* aggregate-function); a cross-combination, a second major level, or a minor
\* level before any major level each raises a diagnostic and stores nothing.
C16_LangLvlStoredOnlyIfValid ==
    [][LangLvlVisited =>
          /\ (Len(ast'.includes) = Len(ast.includes) + 1) <=> ValidLevel(decl'.node)
          /\ ~ValidLevel(decl'.node) => ast' = ast
          /\ ((CrossCombination(decl'.node) \/ SecondMajor(decl'.node)
                 \/ MinorBeforeMajor(decl'.node))
                => Len(errors') = Len(errors) + 1 /\ ast' = ast)]_vars

\* C16: after a stored declaration a cross-combination was visited, which
\* raised its diagnostic and stored nothing
C16_CrossCombinationDropped ==
    /\ decl.kind = "lang_lvl"
    /\ decl.node = <<Tok("major_lvl", "SAT-level"), Tok("minor_lvl", "aggregate-function")>>
    /\ Len(ast.includes) = 1
    /\ errors = <<ErrorInfo(30, "not allowed under SAT", Here, NoSym)>>

\* the step handled a constraint that compares a sum or avg call over path
\* arguments with a number; AggregateCall is that call
ConstraintVisited == decl'.kind = "constraint" /\ visited' = visited + 1
IsAggregateCall(n) ==
    /\ n.kind = "function" /\ n.op \in {"sum", "avg"}
    /\ \A k \in 1..Len(n.kids) : n.kids[k].kind = "path"
AggregateSide ==
    IF IsAggregateCall(decl'.node.kids[1]) /\ decl'.node.kids[2] = Num THEN 1
    ELSE IF IsAggregateCall(decl'.node.kids[2]) /\ decl'.node.kids[1] = Num THEN 2
         ELSE 0
AggregateVisited ==
    /\ ConstraintVisited
    /\ decl'.node.kind = "binary_expr" /\ opt_equation(decl'.node.op)
    /\ AggregateSide # 0
AggregateCall == decl'.node.kids[AggregateSide]
TranslatedAggregate ==
    IF AggregateSide = 1 THEN StoredConstraint.content.lhs ELSE StoredConstraint.content.rhs

\* C17: a sum or avg call with one path argument yields an Aggregate with no
\* context whose query is that argument; with two path arguments it yields
\* context = a Reference to the first and query = the second; with zero or
\* more than two arguments a diagnostic is raised, no expression is produced
\* and the enclosing constraint is not stored.
C17_AggregateArity ==
    [][AggregateVisited =>
          CASE Len(AggregateCall.kids) = 1 ->
                  /\ ConstraintStored
                  /\ TranslatedAggregate =
                        [e |-> "Aggregate", op |-> AggregateCall.op, context |-> Nothing,
                         query |-> AggregateCall.kids[1].names]
                  /\ ast'.references = ast.references
                  /\ errors' = errors
            [] Len(AggregateCall.kids) = 2 ->
                  /\ ConstraintStored
                  /\ TranslatedAggregate =
                        [e |-> "Aggregate", op |-> AggregateCall.op,
                         context |-> Some(Sym("Reference", Len(ast.references))),
                         query |-> AggregateCall.kids[2].names]
                  /\ ast'.references =
                        Append(ast.references, [path |-> AggregateCall.kids[1].names])
                  /\ errors' = errors
            [] OTHER ->
                  /\ Len(errors') = Len(errors) + 1
                  /\ errors'[Len(errors')].weight = 30
                  /\ ast' = ast]_vars

\* C17: a sum call of three path arguments was visited: it raised its
\* diagnostic and its constraint was not stored
C17_ThreeArgumentsDropped ==
    /\ decl.kind = "constraint"
    /\ decl.node = NBinary(">", NFunction("sum", <<P1, P2, P1>>), Num)
    /\ errors = <<ErrorInfo(30, "to many arguments", Here, NoSym)>>
    /\ ast.constraints = <<>>

\* the step handled a constraint that is a logic operation or an equation
BinaryVisited ==
    /\ ConstraintVisited
    /\ decl'.node.kind = "binary_expr"
    /\ opt_logic_op(decl'.node.op) \/ opt_equation(decl'.node.op)

\* operand k of that constraint translated on its own, from the state
\* before the step
OperandAlone(k) ==
    IF opt_logic_op(decl'.node.op) THEN opt_constraint(Builder, decl'.node.kids[k])
    ELSE opt_numeric(Builder, decl'.node.kids[k])

\* C18: when one operand of a binary constraint or expression fails to
\* translate and raises its diagnostic, the rest of the constraint is not
\* given up: the other operand is still translated, its paths are recorded
\* as References and its own mismatches are diagnosed.
C18_OtherOperandStillTranslated ==
    [][(BinaryVisited /\ (~OperandAlone(1).out.some \/ ~OperandAlone(2).out.some)) =>
          /\ Len(ast'.references) - Len(ast.references) =
                (Len(OperandAlone(1).ast.references) - Len(ast.references))
                + (Len(OperandAlone(2).ast.references) - Len(ast.references))
          /\ Len(errors') - Len(errors) =
                (Len(OperandAlone(1).errors) - Len(errors))
                + (Len(OperandAlone(2).errors) - Len(errors))]_vars

\* C18: the constraint 3 | a was visited: its left operand raised the
\* diagnostic and no Reference was recorded for a
C18_RightOperandSkipped ==
    /\ decl.kind = "constraint"
    /\ decl.node = NBinary("|", Num, P1)
    /\ errors = <<ErrorInfo(40, "expected a constraint found a expression", Here, NoSym)>>
    /\ ast.references = <<>>
\* the step in which the task takes a Publish or a Reset from the channel
TimedEventTaken ==
    /\ task = "running" /\ rx # <<>> /\ rx' = Tail(rx)
    /\ Head(rx).e \in {"Publish", "Reset"}

\* C19: a Publish or Reset event is applied only if its timestamp is strictly
\* greater than the latest accepted timestamp: an event that is not leaves
\* the stored model and the latest timestamp as they were and sends the
\* client no request, an event that is becomes the latest; and over any
\* sequence of events the latest accepted timestamp never decreases.
C19_StaleEventsDiscarded ==
    [][/\ latest' >= latest
       /\ (TimedEventTaken /\ Head(rx).timestamp <= latest) =>
             /\ map' = map
             /\ latest' = latest
             /\ handled' = Handled(Head(rx), <<>>, Nothing)
       /\ (TimedEventTaken /\ Head(rx).timestamp > latest) =>
             latest' = Head(rx).timestamp
       /\ (~TimedEventTaken) => latest' = latest]_vars

\* a publication as old as the accepted one was dropped: the model of the
\* accepted publication is still stored
C19_StalePublishDropped ==
    /\ latest = 1
    /\ map = Some("m1")
    /\ handled = Handled(Publish("m2", 1, "File"), <<>>, Nothing)
\* the children of p stand in the order of their source positions
InSourceOrder(p) ==
    LET ch == ast.structure.children[p]
    IN \A i, j \in 1..Len(ch) :
          (ch[i] \in DOMAIN span /\ ch[j] \in DOMAIN span /\ span[ch[i]] < span[ch[j]])
              => i < j

\* C20: after translation the children list of every symbol, Root included,
\* is ordered by source position: a child declared earlier in the document
\* precedes every child declared later.
C20_ChildrenInSourceOrder ==
    pc = "done" => \A p \in DOMAIN ast.structure.children : InSourceOrder(p)

\* an import declared before a root feature stands after it among the
\* children of Root
C20_ImportAfterLaterFeature ==
    /\ pc = "done"
    /\ top_level_order = <<"imports", "features">>
    /\ Root \in DOMAIN ast.structure.children
    /\ ast.structure.children[Root] = <<Sym("Feature", 0), Sym("Import", 0)>>
    /\ span[Sym("Import", 0)] < span[Sym("Feature", 0)]
\* sym points into the array of its kind
ValidIndex(a, sym) ==
    sym.k = "Root" \/ (sym.k \in DOMAIN Kinds /\ sym.i >= 0 /\ sym.i < Len(a[Kinds[sym.k]]))

\* the symbols the parent/children relation mentions
StructureSymbols(a) ==
    DOMAIN a.structure.children \cup DOMAIN a.structure.parent
    \cup {a.structure.parent[s] : s \in DOMAIN a.structure.parent}
    \cup UNION {Range(a.structure.children[p]) : p \in DOMAIN a.structure.children}

\* the scopes and the destinations of the name index
IndexSymbols(a) == {key[1] : key \in DOMAIN a.index} \cup {a.index[key] : key \in DOMAIN a.index}

\* C21: after translation every symbol of the parent/children relation, every
\* scope and destination of the name index and every Reference a stored
\* constraint points to has an index below the length of its kind's array,
\* also when constraints were dropped after creating References.
C21_IndicesValid ==
    pc = "done" =>
        \A s \in StructureSymbols(ast) \cup IndexSymbols(ast) \cup ConstraintRefs(ast) :
            ValidIndex(ast, s)

\* `a & 3` was dropped after its Reference to a was created, next to a
\* stored constraint that points to a later Reference
C21_DroppedConstraintKeepsReference ==
    /\ pc = "done"
    /\ Len(ast.references) = 2
    /\ Len(ast.constraints) = 1
    /\ ast.constraints[1].content = [c |-> "Ref", sym |-> Sym("Reference", 1)]
    /\ Sym("Constraint", 0) \in StructureSymbols(ast)
C24_CursorRestored ==
    [][/\ called' = "default" => cursor' = cursor
       /\ called' = "returned" => (frames # <<>> /\ cursor' = Top(frames))]_vars

\* the callback of the root went over an extra node to the second child,
\* made a descent of its own there, and the cursor is back on that child
C24_BackAfterNestedDescent ==
    /\ called = "returned"
    /\ frames = <<<<>>>> /\ cursor = <<2>>
    /\ tree.kids[1].extra

\* a node whose children are all extra nodes: the callback was not run
C24_NoSemanticChild ==
    /\ called = "default" /\ cursor = <<2>>
    /\ NodeAt(tree, cursor).kids # <<>>
\* the descendants of sym in pre-order, following the children lists
RECURSIVE PreOrder(_, _)
PreOrder(a, sym) ==
    LET ch == AstChildren(a, sym)
        F[n \in 0..Len(ch)] == IF n = 0 THEN <<>> ELSE F[n - 1] \o <<ch[n]>> \o PreOrder(a, ch[n])
    IN F[Len(ch)]

Below(a, sym) == Range(PreOrder(a, sym))

NoDuplicates(seq) == \A i, j \in 1..Len(seq) : seq[i] = seq[j] => i = j

\* C25: the walk visit_children(root, merge_root_features, f) never calls f
\* on root; with f always true and merge_root_features off it calls f once
\* on every descendant of root, in pre-order along the children lists; when
\* f(s) is false no descendant of s is visited; with merge_root_features on
\* and a root other than Root, no Feature child and nothing below one is
\* visited.
C25_WalkVisits ==
    q.op = "visit_children" =>
        /\ q.sym \notin Range(q.out)
        /\ (q.filter = "all" /\ q.path = <<>>) =>
              q.out = PreOrder(ast, q.sym) /\ NoDuplicates(q.out)
        /\ \A s \in Range(q.out) :
              ~Filter(q.filter, s) => Below(ast, s) \cap Range(q.out) = {}
        /\ (q.path # <<>> /\ q.sym.k # "Root") =>
              \A p \in {q.sym} \cup Range(q.out) :
                  \A c \in Range(AstChildren(ast, p)) :
                      c.k = "Feature" => ({c} \cup Below(ast, c)) \cap Range(q.out) = {}

\* the walk from Root over two root features, the first with an attribute
C25_PreOrderOfThree ==
    /\ q.op = "visit_children" /\ q.sym = Root /\ q.filter = "all" /\ q.path = <<>>
    /\ q.out = <<Sym("Feature", 0), Sym("Attribute", 0), Sym("Feature", 1)>>
\* the nearest Feature or Attribute above sym, Root when there is none
RECURSIVE EnclosingScope(_, _)
EnclosingScope(a, sym) ==
    IF sym \notin DOMAIN a.structure.parent THEN Root
    ELSE LET p == a.structure.parent[sym]
         IN IF p.k \in {"Feature", "Attribute", "Root"} THEN p ELSE EnclosingScope(a, p)

\* C23: after indexing, every Feature named n, at any nesting depth, has an
\* index entry (Root, n, Feature) that points to a Feature named n; every
\* Attribute a has an entry (s, name(a), Attribute) that points to an
\* Attribute of that name, s being the nearest Feature or Attribute that
\* encloses a; no Group, Constraint or Reference is the scope of an entry.
C23_IndexEntries ==
    pc = "done" =>
        /\ \A f \in {s \in Symbols(ast) : s.k = "Feature"} :
              LET key == <<Root, AstName(ast, f), "Feature">>
              IN /\ key \in DOMAIN ast.index
                 /\ ast.index[key].k = "Feature"
                 /\ AstName(ast, ast.index[key]) = AstName(ast, f)
        /\ \A at \in {s \in Symbols(ast) : s.k = "Attribute"} :
              LET key == <<EnclosingScope(ast, at), AstName(ast, at), "Attribute">>
              IN /\ key \in DOMAIN ast.index
                 /\ ast.index[key].k = "Attribute"
                 /\ AstName(ast, ast.index[key]) = AstName(ast, at)
        /\ \A key \in DOMAIN ast.index : key[1].k \notin {"Group", "Constraint", "Reference"}

\* a feature below a group and an attribute of it are indexed: the feature
\* at Root, the attribute in the scope of the feature
C23_NestedFeatureAtRoot ==
    /\ pc = "done"
    /\ ast.groups # <<>> /\ ast.attributes # <<>> /\ ast.features # <<>>
    /\ ast.structure.parent[Sym("Feature", 0)] = Sym("Group", 0)
    /\ <<Root, "a", "Feature">> \in DOMAIN ast.index
    /\ ast.index[<<Root, "a", "Feature">>] = Sym("Feature", 0)
    /\ <<Sym("Feature", 0), "b", "Attribute">> \in DOMAIN ast.index
    /\ ast.index[<<Sym("Feature", 0), "b", "Attribute">>] = Sym("Attribute", 0)
\* the root-level Features named n, in the order of Root's children list
RootFeaturesNamed(a, n) ==
    SelectSeq(AstChildren(a, Root), LAMBDA s : s.k = "Feature" /\ AstName(a, s) = n)

\* C26: when several root-level Features share a name, the name index keeps
\* the one declared first in source order, and lookup(Root, [name]) yields
\* that first declaration.
C26_FirstRootFeatureKept ==
    pc = "done" =>
        \A n \in Names :
            Len(RootFeaturesNamed(ast, n)) >= 2 =>
                /\ ast.index[<<Root, n, "Feature">>] = RootFeaturesNamed(ast, n)[1]
                /\ RootFeaturesNamed(ast, n)[1] \in Range(lookup(ast, Root, <<n>>, "all"))

\* two root features named a, the first with a feature named a below it:
\* the index keeps the nested one
C26_NestedNamesakeKept ==
    /\ pc = "done"
    /\ RootFeaturesNamed(ast, "a") = <<Sym("Feature", 0), Sym("Feature", 2)>>
    /\ ast.structure.parent[Sym("Feature", 1)] = Sym("Feature", 0)
    /\ ast.index[<<Root, "a", "Feature">>] = Sym("Feature", 1)
\* C27: lookup_import ends without failure for every path and every set of
\* imports, the empty path and a path that ends on a Dir included; a branch
\* that ends on a Dir yields nothing.
C27_LookupImportNeverFails ==
    q.op = "lookup_import" => ~q.out.panic

\* the one import is a.b and the path is a: the walk ends on Dir a with
\* nothing left of the path, and fails there
C27_FailsOnDir ==
    /\ q.op = "lookup_import" /\ q.path = <<"a">>
    /\ Len(ast.import) = 1 /\ ast.import[1].path = <<"a", "b">> /\ ast.import[1].alias = None
    /\ q.out.panic
\* C28: if the translation of a document emits no diagnostic, then for every
\* name n the query lookup(Root, [n]) with a filter that accepts everything
\* yields at most one symbol: no name stands at Root for more than one of
\* Import, Dir and Feature without a diagnostic.
C28_OneSymbolPerRootName ==
    (pc = "done" /\ errors = <<>>) =>
        \A n \in Names : Len(lookup(ast, Root, <<n>>, "all")) <= 1

\* the imports a and a.b: a is an Import and a Dir at Root, and no
\* diagnostic was emitted
C28_ImportAndDirUndiagnosed ==
    /\ pc = "done" /\ errors = <<>>
    /\ Len(ast.import) = 2 /\ ast.features = <<>>
    /\ ast.import[1] = [alias |-> None, path |-> <<"a">>]
    /\ ast.import[2] = [alias |-> None, path |-> <<"a", "b">>]
    /\ Range(lookup(ast, Root, <<"a">>, "all")) = {Sym("Import", 0), Sym("Dir", 0)}

\* C29: once every change of the source has returned and its SetSource event
\* has been processed, a model the handler holds was submitted for the
\* source that is active now, as long as the handler task runs
C29_HeldModelForActiveSource ==
    (task = "running" /\ ~SetSourcePending(rx) /\ map.some) => held_for = source

\* the handler installed a publication for File after it had processed the
\* change of the source to None
C29_PublishedForFormerSource ==
    /\ task = "running"
    /\ ~SetSourcePending(rx)
    /\ source = "None"
    /\ handled.event.e = "Publish"
    /\ handled.event.source = "File"
    /\ map = Some(handled.event.model)
    /\ held_for = "File"

\* C30: the first publication issued for the active source after the handler
\* processed the change of the source is eventually taken by the handler and
\* installed as the model it holds, unless the source is changed again
C30_FirstPublishInstalled ==
    (awaited.e = "Publish")
        ~> (awaited.e # "Publish" \/ (handled.event = awaited /\ map = Some(awaited.model)))

\* a Reset of time 1 was accepted, the source was changed to File and the
\* change processed, and the first publication for File, of time 1, was
\* taken and discarded: the handler holds no model
C30_FirstPublishDiscarded ==
    /\ task = "running"
    /\ awaited = Publish("m1", 1, "File")
    /\ source = "File"
    /\ handled = Handled(awaited, <<>>, Nothing)
    /\ latest = 1
    /\ ~map.some
    /\ rx = <<>> /\ sending = {}

====
